---- MODULE Spec2Model ----
(***************************************************************************)
(* Model of the Gitjira synchronisation scripts.                           *)
(*                                                                         *)
(*   Part I   Contributors.py  JiraProcessor.process_jira_issues: the      *)
(*            reconciliation of the Jira issues with the table             *)
(*            jira_issue_commits (one or two passes, each on its own       *)
(*            database connection).                                        *)
(*   Part II  github_script.py  get_github_data, fetch_and_store_commits   *)
(*            and store_commit_data: the paginated commit fetch.           *)
(*   Part III  github_script.py  the rate-limit handling of the request    *)
(*             loops.                                                      *)
(*   Part IV   commits.py  map_commits_to_stages.                          *)
(*   Part V    Contributors.py  extract_jira_issue_keys.                   *)
(*   Part VI   github_script.py  extract_tags.                             *)
(*   Part VII  Contributors.py  JiraProcessor.process_commit_jira_links.   *)
(*   Part VIII jira_script.py  the main loop and the store functions.      *)
(*   Part IX   Contributors.py  JiraProcessor._fetch_all_jira_issues.      *)
(*   Part X    jira_script.py  _fetch_paginated_jira_data.                 *)
(*   Part XI   commits.py, github_script.py  get_all_branches.             *)
(*   Part XII  commits.py  save_to_postgres.                               *)
(*   Part XIII jira_script.py  store_jira_issue_links.                     *)
(*   Part XIV  jira_script.py  _init_db and its callers.                   *)
(*                                                                         *)
(* The database is PostgreSQL reached through psycopg2: a connection runs  *)
(* one transaction from its first statement to its commit() or rollback(), *)
(* statements see the committed rows and the connection's own uncommitted  *)
(* writes (READ COMMITTED), and a statement that touches a row another     *)
(* open transaction has written waits for that transaction to end.         *)
(***************************************************************************)
EXTENDS Integers, Sequences, FiniteSets, Bags, TLC

(***************************************************************************)
(* Part I.  Domains and bounds                                             *)
(***************************************************************************)
\* Issue keys of the tracker, in the order the search API lists them.
KeySeq == <<"K1", "K2">>
Keys == {KeySeq[i] : i \in 1..Len(KeySeq)}
\* Commit hashes that commit_jira may link to an issue.
Shas == {"c1"}
\* commit_sha of the row of an issue without commits (Python None, SQL NULL).
NULL == "NULL"
Statuses == {"To Do", "Done"}
Sprints == {"S1", "S2"}
\* Two JiraProcessor instances, each with its own connection.
Procs == {"A", "B"}

\* Passes of the process that runs alone.
MaxPasses == 3
\* Changes of the external data (tracker edits, new commit links).
MaxChanges == 2
\* Statements that psycopg2 fails with an Error.
MaxErrors == 1

\* An issue the tracker does not hold.
Absent == [status |-> "-", sprint |-> "-"]
IssueValues == [status : Statuses, sprint : Sprints]
\* What stands for the status of a payload that lacks it: the payload has
\* no "fields", its fields have no "status", or the status has no "name".
LackingStatus == {"no fields", "no status", "no name"}

VARIABLES
    \* ---- external data
    jira,               \* tracker: key -> [status, sprint], or Absent
    commit_jira,        \* table commit_jira: sha -> jira_key (sha is unique)
    \* ---- table jira_issue_commits
    jic,                \* committed rows, a bag of [sprint, jira_key, status, commit_sha]
    tx,                 \* per connection: uncommitted inserts and row updates
    \* ---- process_jira_issues, per process
    pc,                 \* position in process_jira_issues
    all_issues,         \* fetched issues, a sequence of [key, status, sprint]
    existing_map,       \* (jira_key, commit_sha) -> status, as read at the start
    existing_jira_keys, \* jira keys read at the start
    jira_commits,       \* jira_key -> set of sha, as read from commit_jira
    idx,                \* index in all_issues of the issue being processed
    todo,               \* commits of that issue not yet processed
    inserts,
    updates,
    \* ---- bookkeeping of the run
    quota,              \* per process: the passes it may start
    passes,             \* per process: the passes it has started
    changes,            \* external changes so far
    nerrors,            \* failed statements so far
    \* ---- observation of the run (read by the properties only)
    lastOp,             \* per process: what the last loop iteration did
    cur,                \* per process: statements, failures and writes of the pass
    done,               \* per process: summary of its last completed pass
    commitLog           \* processes in the order their passes committed

VARIABLES
    \* ---- the branch on GitHub and the HTTP failures
    remote,             \* number of commits of the branch, listed 1..remote
    quality,            \* per commit: what storing its data meets, once fetched
    httpFails,          \* requests answered otherwise than 200 so far
    \* ---- get_github_data, the call in progress
    attempt,            \* attempts made by the call
    ret,                \* Pending, or what the call returned
    \* ---- fetch_and_store_commits
    fpc,                \* position in fetch_and_store_commits
    page,
    commits_data,       \* the page being processed
    pos,                \* index in commits_data of the commit being processed
    processed_commits,
    \* ---- the connection of fetch_and_store_commits and table commit_history
    txn,                \* "idle", "open" or "aborted"
    staged,             \* commits written by the open transaction
    stored,             \* commits of the committed rows
    \* ---- observation of the fetch (read by the properties only)
    callLog,            \* the attempts of the call in progress: [resp, wait]
    failed,             \* the requests given up, with the reason
    asked,              \* the pages requested
    storeLog            \* commits handed to store_commit_data, with the result

VARIABLES
    \* ---- the rate-limit handling of the three request loops
    fetcher,            \* the function that makes the requests
    clock,              \* time.time(), in seconds
    rlpc,               \* "request": about to send; "response": waiting
    tries,              \* get_github_data: the attempt in progress
    response,           \* the last answer received
    sent,               \* when the last request was sent
    nreq,               \* requests sent so far
    slept               \* sleeps since that answer

VARIABLES
    \* ---- map_commits_to_stages
    transitions_in,     \* what fetch_jira_transitions returned
    commits_in,         \* what get_commits_for_jira_key returned
    transitions,        \* the list, sorted in place
    commits,            \* the list, sorted in place
    current_stage,
    stage_commits,
    mpc                 \* position in map_commits_to_stages

VARIABLES
    \* ---- extract_jira_issue_keys
    message,            \* the commit message, a sequence of characters
    issue_keys,         \* the list returned
    kpc                 \* "start", then "done"

VARIABLES
    \* ---- extract_tags
    tag_message,        \* the commit message, a sequence of characters
    cleaned_tags,       \* the list returned
    tpc                 \* "start", then "done"

VARIABLES
    \* ---- JiraProcessor and its process_commit_jira_links
    link_rows,              \* the logins of the rows iterated so far
    nkeys,                  \* issue keys of the current message tried so far
    github_jira_mapping,    \* self.github_jira_mapping, by lowercased login
    issue_cache,            \* self.issue_cache, by issue key
    team_member,            \* commit_contributors.team_member as the connection sees it
    team_saved,             \* commit_contributors.team_member, committed
    user_login_mappings,    \* table user_login_mappings, committed: login -> username
    runs,                   \* JiraProcessor instances created so far
    fetched_for,            \* rows for which _fetch_jira_issue was called
    learned,                \* by lowercased login: row and name of line 175
    persisted,              \* logins learned by an earlier instance and persisted
    requested,              \* by issue key: requests sent by this instance
    lpc                     \* "loop", "keys", "done", "fetch_raised" or "db_raised"

VARIABLES
    \* ---- JiraGitHubIntegrator: the main loop and its store functions
    references,         \* per commit sha: the issue keys its message names
    cj_table,           \* table commit_jira, committed: pairs <<jira_key, sha>>
    cj_calls,           \* per call of store_commit_jira_mappings: its key, or NULL
                        \* when its commit_jira statements were rolled back
    jira_db,            \* the other tables, committed
    view,               \* the tables as the connection sees them, and whether
                        \* its transaction is aborted
    issue_no,           \* the issue of the loop, a position of KeySeq
    spc,                \* position in the loop body
    detail_returned,    \* per key: what store_jira_details_only returned
    call                \* the last call of store_commit_jira_mappings

VARIABLES
    \* ---- JiraProcessor._fetch_all_jira_issues
    jira_total,         \* issues of the remote collection, the "total" of every answer
    start_at,
    fetched_issues,     \* all_issues of the function, by offset + 1
    page_sizes,         \* the number of issues of every answer, in order
    request_errors,     \* requests that raised
    jpc                 \* "request", then "done"

VARIABLES
    \* ---- JiraGitHubIntegrator._fetch_paginated_jira_data
    search_total,       \* issues matching the search, the "total" of every answer
    search_start,       \* start_at
    results,            \* the issues received, by offset + 1
    search_turn,        \* requests sent so far, modulo 2
    ppc                 \* "request", then "done"

VARIABLES
    \* ---- get_all_branches
    listing,            \* the file whose get_all_branches runs
    remote_branches,    \* branches of the repository
    branch_page,        \* page
    branches,           \* the names collected, by position in the repository
    branch_turn,        \* requests sent so far, modulo 2
    bpc                 \* "request", then "done"

VARIABLES
    \* ---- save_to_postgres
    jira_commit_stages, \* the rows of the table, committed, a bag
    saves,              \* calls of save_to_postgres so far
    rewritten           \* the last call held an entry that differs from the row of its pair

VARIABLES
    \* ---- store_jira_issue_links
    issuelinks,         \* per issue: its links in Jira
    link_unique,        \* jira_issue_link has a unique index over the row
    jira_issue_link,    \* the rows of the table, committed, a bag
    link_before,        \* the table before the last call
    last_stored,        \* the issue of the last call that wrote its records
    repeated,           \* the last call was for the issue of last_stored
    link_calls          \* calls of store_jira_issue_links so far

VARIABLES
    \* ---- _init_db
    init_caller,        \* the function that called _init_db
    db_conn,            \* self.db_conn: "None", "open" (verified), "unverified" or "closed"
    attempt_log,        \* the outcome of every attempt of the loop
    init_ret,           \* what _init_db returned
    proceeded,          \* what the caller did with it
    ipc                 \* "loop", "returned", then "done"

ghVars == <<remote, quality, httpFails, attempt, ret>>
fetchVars == <<fpc, page, commits_data, pos, processed_commits, txn, staged, stored>>
fetchObs == <<callLog, failed, asked, storeLog>>
fetchAll == <<ghVars, fetchVars, fetchObs>>

extVars == <<jira, commit_jira>>
dbVars == <<jic, tx>>
passVars == <<pc, all_issues, existing_map, existing_jira_keys, jira_commits,
              idx, todo, inserts, updates>>
countVars == <<quota, passes, changes, nerrors>>
obsVars == <<lastOp, cur, done, commitLog>>
reconVars == <<extVars, dbVars, passVars, countVars, obsVars>>

rateVars == <<fetcher, clock, rlpc, tries, response, sent, nreq, slept>>
stageVars == <<transitions_in, commits_in, transitions, commits, current_stage,
               stage_commits, mpc>>
keyVars == <<message, issue_keys, kpc>>
tagVars == <<tag_message, cleaned_tags, tpc>>
linkVars == <<link_rows, nkeys, github_jira_mapping, issue_cache, team_member,
              team_saved, user_login_mappings, runs, fetched_for, learned,
              persisted, requested, lpc>>
storeVars == <<references, cj_table, cj_calls, jira_db, view, issue_no, spc,
               detail_returned, call>>
jiraFetchVars == <<jira_total, start_at, fetched_issues, page_sizes,
                   request_errors, jpc>>
pagedVars == <<search_total, search_start, results, search_turn, ppc>>
branchVars == <<listing, remote_branches, branch_page, branches, branch_turn, bpc>>
saveVars == <<jira_commit_stages, saves, rewritten>>
issueLinkVars == <<issuelinks, link_unique, jira_issue_link, link_before,
                   last_stored, repeated, link_calls>>
initDbVars == <<init_caller, db_conn, attempt_log, init_ret, proceeded, ipc>>

\* What the actions of one part leave unchanged: the variables of the others.
notRecon == <<fetchAll, rateVars, stageVars, keyVars, tagVars, linkVars, storeVars, jiraFetchVars, pagedVars, branchVars, saveVars, issueLinkVars, initDbVars>>
notFetch == <<reconVars, rateVars, stageVars, keyVars, tagVars, linkVars, storeVars, jiraFetchVars, pagedVars, branchVars, saveVars, issueLinkVars, initDbVars>>
notRate == <<reconVars, fetchAll, stageVars, keyVars, tagVars, linkVars, storeVars, jiraFetchVars, pagedVars, branchVars, saveVars, issueLinkVars, initDbVars>>
notStage == <<reconVars, fetchAll, rateVars, keyVars, tagVars, linkVars, storeVars, jiraFetchVars, pagedVars, branchVars, saveVars, issueLinkVars, initDbVars>>
notKey == <<reconVars, fetchAll, rateVars, stageVars, tagVars, linkVars, storeVars, jiraFetchVars, pagedVars, branchVars, saveVars, issueLinkVars, initDbVars>>
notTag == <<reconVars, fetchAll, rateVars, stageVars, keyVars, linkVars, storeVars, jiraFetchVars, pagedVars, branchVars, saveVars, issueLinkVars, initDbVars>>
notLink == <<reconVars, fetchAll, rateVars, stageVars, keyVars, tagVars, storeVars, jiraFetchVars, pagedVars, branchVars, saveVars, issueLinkVars, initDbVars>>
notStore == <<reconVars, fetchAll, rateVars, stageVars, keyVars, tagVars, linkVars, jiraFetchVars, pagedVars, branchVars, saveVars, issueLinkVars, initDbVars>>
notJiraFetch == <<reconVars, fetchAll, rateVars, stageVars, keyVars, tagVars, linkVars, storeVars, pagedVars, branchVars, saveVars, issueLinkVars, initDbVars>>
notPaged == <<reconVars, fetchAll, rateVars, stageVars, keyVars, tagVars, linkVars, storeVars, jiraFetchVars, branchVars, saveVars, issueLinkVars, initDbVars>>
notBranches == <<reconVars, fetchAll, rateVars, stageVars, keyVars, tagVars, linkVars, storeVars, jiraFetchVars, pagedVars, saveVars, issueLinkVars, initDbVars>>
notSave == <<reconVars, fetchAll, rateVars, stageVars, keyVars, tagVars, linkVars, storeVars, jiraFetchVars, pagedVars, branchVars, issueLinkVars, initDbVars>>
notIssueLink == <<reconVars, fetchAll, rateVars, stageVars, keyVars, tagVars, linkVars, storeVars, jiraFetchVars, pagedVars, branchVars, saveVars, initDbVars>>
notInitDb == <<reconVars, fetchAll, rateVars, stageVars, keyVars, tagVars, linkVars, storeVars, jiraFetchVars, pagedVars, branchVars, saveVars, issueLinkVars>>
vars == <<reconVars, fetchAll, rateVars, stageVars, keyVars, tagVars, linkVars, storeVars, jiraFetchVars, pagedVars, branchVars, saveVars, issueLinkVars, initDbVars>>

(***************************************************************************)
(* Rows and transactions                                                   *)
(***************************************************************************)
Row(name, key, status, sha) ==
    [sprint |-> name, jira_key |-> key, status |-> status, commit_sha |-> sha]

\* A function with no argument (an empty dict, an empty table).
EmptyFn == [x \in {} |-> NULL]

NoTx == [ins |-> EmptyBag, upd |-> EmptyFn]

\* Rows of bag b whose commit_sha is sha.
WithSha(b, sha) == {r \in BagToSet(b) : r.commit_sha = sha}

\* The committed rows with the status updates u (sha -> status) applied.
ApplyUpd(b, u) ==
    LET touched == {r \in BagToSet(b) : r.commit_sha \in DOMAIN u}
        rest == [r \in BagToSet(b) \ touched |-> b[r]]
    IN  rest (+) SetToBag({[r EXCEPT !.status = u[r.commit_sha]] : r \in touched})

\* What the statements of connection p see.
View(p) == ApplyUpd(jic, tx[p].upd) (+) tx[p].ins

\* The rows after connection p commits.
Committed(p) == View(p)

\* A unique index treats NULLs as distinct: a NULL commit_sha never conflicts.
Conflicts(sha) == sha # NULL

\* The connection, other than p, whose open transaction has written a row
\* with this commit_sha: p's statement on the same index entry waits for it.
Blocked(p, sha) ==
    /\ Conflicts(sha)
    /\ \E q \in Procs \ {p} :
          \/ sha \in DOMAIN tx[q].upd
          \/ WithSha(tx[q].ins, sha) # {}

\* INSERT INTO jira_issue_commits (sprint, jira_key, status, commit_sha)
\* VALUES (...) ON CONFLICT (commit_sha) DO UPDATE SET status = EXCLUDED.status
\* WHERE jira_issue_commits.status != EXCLUDED.status
\* run on connection p: the transaction of p after the statement.
Upsert(p, name, key, status, sha) ==
    LET t == tx[p]
        own == WithSha(t.ins, sha)
        old == WithSha(jic, sha)
    IN  IF Conflicts(sha) /\ own # {}
        THEN LET r == CHOOSE r \in own : TRUE
             IN  [t EXCEPT !.ins = (@ (-) SetToBag({r}))
                                   (+) SetToBag({[r EXCEPT !.status = status]})]
        ELSE IF Conflicts(sha) /\ old # {}
        THEN [t EXCEPT !.upd = [s \in DOMAIN @ \cup {sha} |->
                                   IF s = sha THEN status ELSE @[s]]]
        ELSE [t EXCEPT !.ins = @ (+) SetToBag({Row(name, key, status, sha)})]

(***************************************************************************)
(* process_jira_issues                                                     *)
(***************************************************************************)
\* The issues the search returns: every issue of the tracker, in key order.
FetchAll ==
    LET present == SelectSeq(KeySeq, LAMBDA k : jira[k] # Absent)
    IN  [i \in 1..Len(present) |->
            [key |-> present[i], status |-> jira[present[i]].status,
             sprint |-> jira[present[i]].sprint]]

\* The pairs (jira_key, commit_sha) of the rows of bag b.
Pairs(b) == {<<r.jira_key, r.commit_sha>> : r \in BagToSet(b)}

\* The dictionaries a SELECT without ORDER BY can build: for a pair held by
\* several rows the row read last wins, and the order of the rows is not fixed.
ExistingMaps(b) ==
    {m \in [Pairs(b) -> Statuses \cup {"Unknown"}] :
        \A pr \in Pairs(b) :
            \E r \in BagToSet(b) :
                /\ <<r.jira_key, r.commit_sha>> = pr
                /\ r.status = m[pr]}

\* jira_commits.get(key, [None])
CommitsOf(jc, key) == IF key \in DOMAIN jc THEN jc[key] ELSE {NULL}

\* existing_map.get(entry_key), None written NULL
StatusIn(m, key, sha) == IF <<key, sha>> \in DOMAIN m THEN m[<<key, sha>>] ELSE NULL

NoOp == [kind |-> "none", key |-> NULL, sha |-> NULL, status |-> NULL,
         payload |-> NULL, existing |-> NULL, isNew |-> FALSE, before |-> {}, shaElsewhere |-> FALSE,
         effect |-> "none", counted |-> "none", othersSame |-> TRUE,
         onlyStatus |-> TRUE]
NoCur == [stmts |-> 0, errKeys |-> {}, wrote |-> {}, overlap |-> FALSE]
NoDone == [n |-> 0, issues |-> << >>, links |-> EmptyFn, stmts |-> 0,
           inserts |-> 0, updates |-> 0, rowsInserted |-> 0, rowsUpdated |-> 0,
           errKeys |-> {}, wrote |-> {}, overlap |-> FALSE]

\* The state before the first pass: an empty table jira_issue_commits, no
\* commit linked yet, a tracker among the trackers J, and passes to run q.
ReconStart(q, J) ==
    /\ quota = q
    /\ jira \in J
    /\ commit_jira = EmptyFn
    /\ jic = EmptyBag
    /\ tx = [p \in Procs |-> NoTx]
    /\ pc = [p \in Procs |-> "idle"]
    /\ all_issues = [p \in Procs |-> << >>]
    /\ existing_map = [p \in Procs |-> EmptyFn]
    /\ existing_jira_keys = [p \in Procs |-> {}]
    /\ jira_commits = [p \in Procs |-> EmptyFn]
    /\ idx = [p \in Procs |-> 0]
    /\ todo = [p \in Procs |-> {}]
    /\ inserts = [p \in Procs |-> 0]
    /\ updates = [p \in Procs |-> 0]
    /\ passes = [p \in Procs |-> 0]
    /\ changes = 0
    /\ nerrors = 0
    /\ lastOp = [p \in Procs |-> NoOp]
    /\ cur = [p \in Procs |-> NoCur]
    /\ done = [p \in Procs |-> NoDone]
    /\ commitLog = << >>

\* ---- lines 272-275: the fetch; an empty result ends the call
FetchIssues(p) ==
    /\ pc[p] = "idle"
    /\ passes[p] < quota[p]
    /\ FetchAll # << >>
    /\ passes' = [passes EXCEPT ![p] = @ + 1]
    /\ all_issues' = [all_issues EXCEPT ![p] = FetchAll]
    /\ pc' = [pc EXCEPT ![p] = "sel_entries"]
    /\ cur' = [cur EXCEPT ![p] = NoCur]
    /\ lastOp' = [lastOp EXCEPT ![p] = NoOp]
    /\ UNCHANGED <<notRecon, extVars, dbVars, existing_map, existing_jira_keys, jira_commits,
                   idx, todo, inserts, updates, quota, changes, nerrors, done,
                   commitLog>>

\* The search failed on its first page, or the tracker holds no issue:
\* _fetch_all_jira_issues returns [] and process_jira_issues returns.
FetchNothing(p) ==
    /\ pc[p] = "idle"
    /\ passes[p] < quota[p]
    /\ passes' = [passes EXCEPT ![p] = @ + 1]
    /\ all_issues' = [all_issues EXCEPT ![p] = << >>]
    /\ UNCHANGED <<notRecon, extVars, dbVars, pc, existing_map, existing_jira_keys,
                   jira_commits, idx, todo, inserts, updates, quota, changes,
                   nerrors, obsVars>>

\* ---- lines 279-283: SELECT jira_key, status, commit_sha FROM jira_issue_commits
SelectEntries(p) ==
    /\ pc[p] = "sel_entries"
    /\ \E m \in ExistingMaps(View(p)) :
          existing_map' = [existing_map EXCEPT ![p] = m]
    /\ pc' = [pc EXCEPT ![p] = "sel_keys"]
    \* observed: another pass has read its entries and not yet committed
    /\ cur' = [cur EXCEPT ![p].overlap =
                   \E q \in Procs \ {p} : pc[q] \in {"sel_keys", "sel_links", "loop"}]
    /\ UNCHANGED <<notRecon, extVars, dbVars, all_issues, existing_jira_keys, jira_commits,
                   idx, todo, inserts, updates, countVars, lastOp, done,
                   commitLog>>

\* ---- lines 286-287: SELECT DISTINCT jira_key FROM jira_issue_commits
SelectKeys(p) ==
    /\ pc[p] = "sel_keys"
    /\ existing_jira_keys' = [existing_jira_keys EXCEPT ![p] =
                                 {r.jira_key : r \in BagToSet(View(p))}]
    /\ pc' = [pc EXCEPT ![p] = "sel_links"]
    /\ UNCHANGED <<notRecon, extVars, dbVars, all_issues, existing_map, jira_commits,
                   idx, todo, inserts, updates, countVars, obsVars>>

\* The dictionary jira_key -> {sha} built from the rows of commit_jira.
LinksByKey(cj) ==
    [k \in {cj[c] : c \in DOMAIN cj} |-> {c \in DOMAIN cj : cj[c] = k}]

\* ---- lines 290-299: SELECT jira_key, sha FROM commit_jira; counters to 0
SelectLinks(p) ==
    /\ pc[p] = "sel_links"
    /\ jira_commits' = [jira_commits EXCEPT ![p] = LinksByKey(commit_jira)]
    /\ inserts' = [inserts EXCEPT ![p] = 0]
    /\ updates' = [updates EXCEPT ![p] = 0]
    /\ idx' = [idx EXCEPT ![p] = 1]
    /\ todo' = [todo EXCEPT ![p] =
                   CommitsOf(LinksByKey(commit_jira), all_issues[p][1].key)]
    /\ pc' = [pc EXCEPT ![p] = "loop"]
    /\ UNCHANGED <<notRecon, extVars, dbVars, all_issues, existing_map, existing_jira_keys,
                   countVars, obsVars>>

\* ---- lines 301-328: the candidate (issue, commit_sha) and the decision
\* A variant that hands the payload's status on as it is.
extract_status_AsIs(issue) == issue.status

\* ---- lines 264-269, extract_status: the KeyError or TypeError of a payload
\* without the status name is caught
extract_status(issue) ==
    IF issue.status \in LackingStatus THEN "Unknown" ELSE issue.status

\* ---- lines 302-306: key, sprint name (None without fields) and status
Issue(p) ==
    LET issue == all_issues[p][idx[p]]
    IN  [key |-> issue.key,
         status |-> extract_status(issue),
         sprint |-> IF issue.status = "no fields" THEN NULL ELSE issue.sprint]
InLoop(p) == pc[p] = "loop" /\ idx[p] <= Len(all_issues[p])
ExistingStatus(p, sha) == StatusIn(existing_map[p], Issue(p).key, sha)
IsNewJiraKey(p) == Issue(p).key \notin existing_jira_keys[p]

ShouldInsert(p, sha) ==
    \/ IsNewJiraKey(p)
    \/ ExistingStatus(p, sha) = NULL
    \/ ExistingStatus(p, sha) # Issue(p).status

\* The two for loops step to the next commit, then to the next issue.
Advance(p, sha) ==
    IF todo[p] \ {sha} # {}
    THEN /\ todo' = [todo EXCEPT ![p] = @ \ {sha}]
         /\ idx' = idx
    ELSE /\ idx' = [idx EXCEPT ![p] = @ + 1]
         /\ todo' = [todo EXCEPT ![p] =
                        IF idx[p] < Len(all_issues[p])
                        THEN CommitsOf(jira_commits[p], all_issues[p][idx[p] + 1].key)
                        ELSE {}]

\* Bag b with the status of the rows of the pair (key, sha) set to status,
\* and nothing else changed.
WithStatus(b, key, sha, status) ==
    LET mine == {r \in BagToSet(b) : r.jira_key = key /\ r.commit_sha = sha}
        set(r) == [r EXCEPT !.status = status]
        copies == UNION {{<<r, i>> : i \in 1..b[r]} : r \in mine}
    IN  [r \in BagToSet(b) \ mine |-> b[r]]
            (+) [n \in {set(r) : r \in mine} |->
                    Cardinality({c \in copies : set(c[1]) = n})]

\* What a loop iteration on commit_sha did, as the properties read it.
Observed(p, sha, kind, after) ==
    LET before == View(p)
        mine(r) == r.jira_key = Issue(p).key /\ r.commit_sha = sha
    IN  [kind |-> kind, key |-> Issue(p).key, sha |-> sha,
         status |-> Issue(p).status, payload |-> all_issues[p][idx[p]].status,
         existing |-> ExistingStatus(p, sha), isNew |-> IsNewJiraKey(p),
         before |-> {r.status : r \in {x \in BagToSet(before) : mine(x)}},
         shaElsewhere |-> \E r \in BagToSet(before) :
                              r.commit_sha = sha /\ r.jira_key # Issue(p).key,
         effect |-> IF kind # "stmt" THEN "none"
                    ELSE IF BagCardinality(after) > BagCardinality(before)
                    THEN "inserted"
                    ELSE IF after # before THEN "updated" ELSE "nochange",
         counted |-> IF kind # "stmt" THEN "none"
                     ELSE IF ExistingStatus(p, sha) = NULL THEN "insert"
                     ELSE "update",
         othersSame |-> \A r \in BagToSet(before) :
                            mine(r) \/ CopiesIn(r, after) = CopiesIn(r, before),
         onlyStatus |-> after = WithStatus(before, Issue(p).key, sha, Issue(p).status)]

\* ---- lines 326-328: the pair is present with the same status: continue
SkipRecord(p) ==
    /\ InLoop(p)
    /\ \E sha \in todo[p] :
          /\ ~ShouldInsert(p, sha)
          /\ Advance(p, sha)
          /\ lastOp' = [lastOp EXCEPT ![p] = Observed(p, sha, "skip", View(p))]
    /\ UNCHANGED <<notRecon, extVars, dbVars, pc, all_issues, existing_map,
                   existing_jira_keys, jira_commits, inserts, updates,
                   countVars, cur, done, commitLog>>

\* ---- lines 329-342: the statement runs; one of the two counters grows
ExecRecord(p) ==
    /\ InLoop(p)
    /\ \E sha \in todo[p] :
          /\ ShouldInsert(p, sha)
          /\ ~Blocked(p, sha)
          /\ LET t == Upsert(p, Issue(p).sprint, Issue(p).key, Issue(p).status, sha)
                 after == ApplyUpd(jic, t.upd) (+) t.ins
             IN  /\ tx' = [tx EXCEPT ![p] = t]
                 /\ lastOp' = [lastOp EXCEPT ![p] = Observed(p, sha, "stmt", after)]
          /\ IF ExistingStatus(p, sha) = NULL
             THEN inserts' = [inserts EXCEPT ![p] = @ + 1] /\ updates' = updates
             ELSE updates' = [updates EXCEPT ![p] = @ + 1] /\ inserts' = inserts
          /\ cur' = [cur EXCEPT ![p].stmts = @ + 1,
                                ![p].wrote = @ \cup {<<Issue(p).key, sha, Issue(p).status>>}]
          /\ Advance(p, sha)
    /\ UNCHANGED <<notRecon, extVars, jic, pc, all_issues, existing_map, existing_jira_keys,
                   jira_commits, countVars, done, commitLog>>

\* ---- lines 343-345: the statement raises psycopg2.Error; db_conn.rollback()
\* ends the connection's transaction, which began with the first SELECT of
\* the pass (or after the previous rollback), and discards all its writes.
FailRecord(p) ==
    /\ InLoop(p)
    /\ nerrors < MaxErrors
    /\ \E sha \in todo[p] :
          /\ ShouldInsert(p, sha)
          /\ tx' = [tx EXCEPT ![p] = NoTx]
          /\ lastOp' = [lastOp EXCEPT ![p] = Observed(p, sha, "error", jic)]
          /\ cur' = [cur EXCEPT ![p].stmts = @ + 1,
                                ![p].errKeys = @ \cup {Issue(p).key}]
          /\ Advance(p, sha)
    /\ nerrors' = nerrors + 1
    /\ UNCHANGED <<notRecon, extVars, jic, pc, all_issues, existing_map, existing_jira_keys,
                   jira_commits, inserts, updates, quota, passes, changes, done,
                   commitLog>>

\* ---- lines 347-349: db_conn.commit() after the last issue
EndPass(p) ==
    /\ pc[p] = "loop"
    /\ idx[p] > Len(all_issues[p])
    /\ jic' = Committed(p)
    /\ tx' = [tx EXCEPT ![p] = NoTx]
    /\ pc' = [pc EXCEPT ![p] = "idle"]
    /\ done' = [done EXCEPT ![p] =
                   [n |-> @.n + 1, issues |-> all_issues[p],
                    links |-> jira_commits[p], stmts |-> cur[p].stmts,
                    inserts |-> inserts[p], updates |-> updates[p],
                    rowsInserted |-> BagCardinality(tx[p].ins),
                    rowsUpdated |-> Cardinality(
                        {r \in BagToSet(jic) :
                            /\ r.commit_sha \in DOMAIN tx[p].upd
                            /\ r.status # tx[p].upd[r.commit_sha]}),
                    errKeys |-> cur[p].errKeys, wrote |-> cur[p].wrote,
                    overlap |-> cur[p].overlap]]
    /\ commitLog' = Append(commitLog, p)
    /\ UNCHANGED <<notRecon, extVars, all_issues, existing_map, existing_jira_keys,
                   jira_commits, idx, todo, inserts, updates, countVars,
                   lastOp, cur>>

(***************************************************************************)
(* The external data between and during the passes                         *)
(***************************************************************************)
\* An issue is created in the tracker.
CreateIssue ==
    /\ changes < MaxChanges
    /\ \E k \in Keys, v \in IssueValues :
          /\ jira[k] = Absent
          /\ jira' = [jira EXCEPT ![k] = v]
    /\ changes' = changes + 1
    /\ UNCHANGED <<notRecon, commit_jira, dbVars, passVars, quota, passes, nerrors, obsVars>>

\* An issue changes its status or its sprint in the tracker.
ChangeIssue ==
    /\ changes < MaxChanges
    /\ \E k \in Keys, v \in IssueValues :
          /\ jira[k] # Absent
          /\ jira[k] # v
          /\ jira' = [jira EXCEPT ![k] = v]
    /\ changes' = changes + 1
    /\ UNCHANGED <<notRecon, commit_jira, dbVars, passVars, quota, passes, nerrors, obsVars>>

\* jira_script.py stores a commit of an issue: INSERT INTO commit_jira
\* (jira_key, sha) ... ON CONFLICT (sha) DO NOTHING keeps the first key of a sha.
LinkCommit ==
    /\ changes < MaxChanges
    /\ \E k \in Keys, c \in Shas :
          /\ c \notin DOMAIN commit_jira
          /\ commit_jira' = [s \in DOMAIN commit_jira \cup {c} |->
                                IF s = c THEN k ELSE commit_jira[s]]
    /\ changes' = changes + 1
    /\ UNCHANGED <<notRecon, jira, dbVars, passVars, quota, passes, nerrors, obsVars>>

External == CreateIssue \/ ChangeIssue \/ LinkCommit

Pass(p) ==
    \/ FetchIssues(p) \/ FetchNothing(p)
    \/ SelectEntries(p) \/ SelectKeys(p) \/ SelectLinks(p)
    \/ SkipRecord(p) \/ ExecRecord(p) \/ FailRecord(p)
    \/ EndPass(p)

ReconNext == (\E p \in Procs : Pass(p)) \/ External

(***************************************************************************)
(* Part II.  github_script.py: get_github_data, fetch_and_store_commits,   *)
(* store_commit_data                                                       *)
(***************************************************************************)
\* Commits of the branch (at most), listed PerPage to a page; the code asks
\* for per_page = 100.
MaxCommits == 5
PerPage == 2
\* Requests answered otherwise than 200 with budget left, in one fetch.
MaxHttpFails == 3
\* Commits whose data store_commit_data cannot store.
MaxBadCommits == 1

max_retries == 3
retry_delay == 5
\* sleep_time = max(reset_time - time.time(), 0) + 10, the reset being due
rate_limit_sleep == 10

\* What storing a commit meets: nothing; a key missing in the payload
\* (KeyError before the first statement); a statement of the commit that
\* the database rejects; a statement of one of its files that it rejects.
Qualities == {"valid", "bad_data", "rejected", "file_rejected"}

PageCount == (remote + PerPage - 1) \div PerPage
\* GET /repos/{owner}/{repo}/commits?per_page=..&page=p: the shas of page p.
PageBody(p) ==
    LET first == (p - 1) * PerPage + 1
        last == IF p * PerPage < remote THEN p * PerPage ELSE remote
    IN  [i \in 1..(IF last >= first THEN last - first + 1 ELSE 0) |-> first + i - 1]

\* What a call of get_github_data has returned: nothing yet, None, or the
\* decoded body of a response.
Pending == [kind |-> "pending", body |-> << >>]
None == [kind |-> "None", body |-> << >>]
Returned(b) == [kind |-> "body", body |-> b]

Calling == fpc \in {"repo", "list", "detail"} /\ ret = Pending
\* The request of the call in progress.
CallId ==
    IF fpc = "repo" THEN <<"repo", 0>>
    ELSE IF fpc = "list" THEN <<"list", page>>
    ELSE <<"detail", commits_data[pos]>>
\* response.json() of the request.
Body ==
    IF fpc = "repo" THEN "info"
    ELSE IF fpc = "list" THEN PageBody(page)
    ELSE commits_data[pos]

FetchInit ==
    /\ remote \in 0..MaxCommits
    /\ quality = [c \in 1..remote |-> "unknown"]
    /\ httpFails = 0
    /\ attempt = 0
    /\ ret = None
    /\ fpc = "start"
    /\ page = 0
    /\ commits_data = << >>
    /\ pos = 0
    /\ processed_commits = 0
    /\ txn = "closed"
    /\ staged = {}
    /\ stored = {}
    /\ callLog = << >>
    /\ failed = {}
    /\ asked = {}
    /\ storeLog = << >>

\* No fetch runs.
FetchOff ==
    /\ remote = 0
    /\ quality = << >>
    /\ httpFails = 0
    /\ attempt = 0
    /\ ret = None
    /\ fpc = "off"
    /\ page = 0
    /\ commits_data = << >>
    /\ pos = 0
    /\ processed_commits = 0
    /\ txn = "closed"
    /\ staged = {}
    /\ stored = {}
    /\ callLog = << >>
    /\ failed = {}
    /\ asked = {}
    /\ storeLog = << >>

\* ---- get_github_data, lines 133-137: a new call
NewCall ==
    /\ attempt' = 0
    /\ ret' = Pending
    /\ callLog' = << >>

\* One pass of the for loop: the request, its answer, the sleep that follows.
Logged(status, limited, wait) ==
    callLog' = Append(callLog, [status |-> status, limited |-> limited, wait |-> wait])

\* The body of a detail request shows what storing the commit will meet.
Reveals(q) ==
    IF fpc = "detail"
    THEN /\ q = "valid" \/
               Cardinality({c \in 1..remote : quality[c] \notin {"unknown", "valid"}})
                   < MaxBadCommits
         /\ quality' = [quality EXCEPT ![commits_data[pos]] = q]
    ELSE /\ q = "valid"
         /\ quality' = quality

\* ---- lines 149-150: status 200 with budget left: return the body
GhOk ==
    /\ Calling
    /\ attempt < max_retries
    /\ ret' = Returned(Body)
    /\ Logged("200", FALSE, 0)
    /\ \E q \in Qualities : Reveals(q)
    /\ UNCHANGED <<notFetch, remote, httpFails, attempt, fetchVars,
                   failed, asked, storeLog>>

\* ---- lines 141-147: X-RateLimit-Remaining <= 1 (or no such header), whatever
\* the status: sleep until the reset plus 10 s, continue with the next attempt
GhRateLimited ==
    /\ Calling
    /\ attempt < max_retries
    /\ httpFails < MaxHttpFails
    /\ \E status \in {"200", "404", "500"} : Logged(status, TRUE, rate_limit_sleep)
    /\ attempt' = attempt + 1
    /\ httpFails' = httpFails + 1
    /\ UNCHANGED <<notFetch, remote, quality, ret, fetchVars, failed, asked,
                   storeLog>>

\* ---- lines 151-153: status 404: return None
Gh404 ==
    /\ Calling
    /\ attempt < max_retries
    /\ httpFails < MaxHttpFails
    /\ ret' = None
    /\ Logged("404", FALSE, 0)
    /\ httpFails' = httpFails + 1
    /\ failed' = failed \cup {Append(CallId, "not_found")}
    /\ UNCHANGED <<notFetch, remote, quality, attempt, fetchVars, asked, storeLog>>

\* ---- lines 154-159: another status, or an exception of the request or of
\* response.json(): sleep retry_delay, next attempt
GhTransient ==
    /\ Calling
    /\ attempt < max_retries
    /\ httpFails < MaxHttpFails
    /\ \E status \in {"500", "exception"} : Logged(status, FALSE, retry_delay)
    /\ attempt' = attempt + 1
    /\ httpFails' = httpFails + 1
    /\ UNCHANGED <<notFetch, remote, quality, ret, fetchVars, failed, asked,
                   storeLog>>

\* ---- lines 161-162: the loop is over: return None
GhGiveUp ==
    /\ Calling
    /\ attempt = max_retries
    /\ ret' = None
    /\ failed' = failed \cup {Append(CallId, "exhausted")}
    /\ UNCHANGED <<notFetch, remote, quality, httpFails, attempt, fetchVars,
                   callLog, asked, storeLog>>

\* ---- fetch_and_store_commits, lines 166-167: get_repository_info
FetchStart ==
    /\ fpc = "start"
    /\ fpc' = "repo"
    /\ NewCall
    /\ UNCHANGED <<notFetch, remote, quality, httpFails, page, commits_data, pos,
                   processed_commits, txn, staged, stored, failed, asked, storeLog>>

\* ---- lines 168-194: repo_info is never empty; the connection opens; the
\* first page is requested
RepoReturns ==
    /\ fpc = "repo" /\ ret # Pending
    /\ txn' = "idle"
    /\ page' = 1
    /\ processed_commits' = 0
    /\ fpc' = "list"
    /\ asked' = asked \cup {1}
    /\ NewCall
    /\ UNCHANGED <<notFetch, remote, quality, httpFails, commits_data, pos,
                   staged, stored, failed, storeLog>>

\* ---- lines 175-177: create_db_connection() returns None: return False
RepoReturnsNoDb ==
    /\ fpc = "repo" /\ ret # Pending
    /\ fpc' = "done"
    /\ UNCHANGED <<notFetch, ghVars, page, commits_data, pos, processed_commits,
                   txn, staged, stored, fetchObs>>

\* ---- lines 233-240: return True; finally conn.close() drops what the
\* connection has not committed
Finish ==
    /\ fpc' = "done"
    /\ txn' = "closed"
    /\ staged' = {}
    /\ UNCHANGED <<attempt, ret, callLog, page, commits_data, pos, asked>>

\* ---- lines 196-198: no page, no list or an empty list: break
PageFails ==
    /\ fpc = "list" /\ ret # Pending
    /\ ret = None \/ ret = Returned(<< >>)
    /\ Finish
    /\ UNCHANGED <<notFetch, remote, quality, httpFails, processed_commits,
                   stored, failed, storeLog>>

\* ---- lines 201-211: the details of the first commit of the page
PageReturns ==
    /\ fpc = "list" /\ ret # Pending
    /\ ret # None /\ ret # Returned(<< >>)
    /\ commits_data' = ret.body
    /\ pos' = 1
    /\ fpc' = "detail"
    /\ NewCall
    /\ UNCHANGED <<notFetch, remote, quality, httpFails, page, processed_commits,
                   txn, staged, stored, failed, asked, storeLog>>

\* NextCommit without page += 1: the same page is requested again.
NextCommit_SamePage ==
    IF pos < Len(commits_data)
    THEN /\ pos' = pos + 1
         /\ fpc' = "detail"
         /\ NewCall
         /\ UNCHANGED <<page, commits_data, asked>>
    ELSE IF Len(commits_data) < PerPage
    THEN /\ fpc' = "done"
         /\ UNCHANGED <<attempt, ret, callLog, page, commits_data, pos, asked>>
    ELSE /\ fpc' = "list"
         /\ NewCall
         /\ UNCHANGED <<page, asked, commits_data, pos>>

\* NextCommit with the pagination control inside the for loop: a full page
\* is left after its first commit.
NextCommit_LeavesPage ==
    IF Len(commits_data) < PerPage
    THEN IF pos < Len(commits_data)
         THEN /\ pos' = pos + 1
              /\ fpc' = "detail"
              /\ NewCall
              /\ UNCHANGED <<page, commits_data, asked>>
         ELSE /\ fpc' = "done"
              /\ UNCHANGED <<attempt, ret, callLog, page, commits_data, pos, asked>>
    ELSE /\ page' = page + 1
         /\ asked' = asked \cup {page + 1}
         /\ fpc' = "list"
         /\ NewCall
         /\ UNCHANGED <<commits_data, pos>>

\* ---- lines 201, 226-231: the next commit of the page; after the last one
\* a short page ends the fetch, a full page leads to the next page
NextCommit ==
    IF pos < Len(commits_data)
    THEN /\ pos' = pos + 1
         /\ fpc' = "detail"
         /\ NewCall
         /\ UNCHANGED <<page, commits_data, asked>>
    ELSE IF Len(commits_data) < PerPage
    THEN /\ fpc' = "done"
         /\ UNCHANGED <<attempt, ret, callLog, page, commits_data, pos, asked>>
    ELSE /\ page' = page + 1
         /\ asked' = asked \cup {page + 1}
         /\ fpc' = "list"
         /\ NewCall
         /\ UNCHANGED <<commits_data, pos>>

\* conn.close() when the loop ends at the last commit of a short page.
Closing == pos = Len(commits_data) /\ Len(commits_data) < PerPage
AfterStore(t, st) ==
    /\ txn' = IF Closing THEN "closed" ELSE t
    /\ staged' = IF Closing THEN {} ELSE st

\* ---- lines 213-215: no details for the commit: continue
DetailFails ==
    /\ fpc = "detail" /\ ret = None
    /\ NextCommit
    /\ AfterStore(txn, staged)
    /\ UNCHANGED <<notFetch, remote, quality, httpFails, processed_commits,
                   stored, failed, storeLog>>

Storing == fpc = "detail" /\ ret.kind = "body"
StoreLogged(result) == storeLog' = Append(storeLog, <<ret.body, result>>)

\* ---- store_commit_data, lines 248-441: every statement succeeds;
\* conn.commit(); return True
StoreOk ==
    /\ Storing
    /\ txn # "aborted"
    /\ quality[ret.body] = "valid"
    /\ stored' = stored \cup staged \cup {ret.body}
    /\ AfterStore("idle", {})
    /\ processed_commits' = processed_commits + 1
    /\ StoreLogged("stored")
    /\ NextCommit
    /\ UNCHANGED <<notFetch, remote, quality, httpFails, failed>>

\* ---- lines 250-316, 442-444: BEGIN, then a KeyError while the values of
\* the first INSERT are built: return False, the transaction stays open
StoreBadData ==
    /\ Storing
    /\ txn # "aborted"
    /\ quality[ret.body] = "bad_data"
    /\ AfterStore("open", staged)
    /\ StoreLogged("failed")
    /\ NextCommit
    /\ UNCHANGED <<notFetch, remote, quality, httpFails, processed_commits,
                   stored, failed>>

\* ---- lines 287-360, 442-444: a statement raises a database error: return
\* False with no rollback, the transaction stays aborted
StoreRejected ==
    /\ Storing
    /\ txn # "aborted"
    /\ quality[ret.body] = "rejected"
    /\ AfterStore("aborted", staged)
    /\ StoreLogged("failed")
    /\ NextCommit
    /\ UNCHANGED <<notFetch, remote, quality, httpFails, processed_commits,
                   stored, failed>>

\* ---- lines 362-441: a statement of a file raises a database error, which
\* the loop catches; conn.commit() on the aborted transaction rolls it back;
\* return True
StoreFileRejected ==
    /\ Storing
    /\ txn # "aborted"
    /\ quality[ret.body] = "file_rejected"
    /\ AfterStore("idle", {})
    /\ processed_commits' = processed_commits + 1
    /\ StoreLogged("lost")
    /\ NextCommit
    /\ UNCHANGED <<notFetch, remote, quality, httpFails, stored, failed>>

\* ---- lines 250, 442-444, 222-224: in an aborted transaction BEGIN raises
\* InFailedSqlTransaction; the commit is not stored
StoreInAborted ==
    /\ Storing
    /\ txn = "aborted"
    /\ AfterStore("aborted", staged)
    /\ StoreLogged("failed")
    /\ NextCommit
    /\ UNCHANGED <<notFetch, remote, quality, httpFails, processed_commits,
                   stored, failed>>

GetGithubData == GhOk \/ GhRateLimited \/ Gh404 \/ GhTransient \/ GhGiveUp
StoreCommitData ==
    StoreOk \/ StoreBadData \/ StoreRejected \/ StoreFileRejected \/ StoreInAborted
FetchNext ==
    \/ FetchStart \/ RepoReturns \/ RepoReturnsNoDb
    \/ PageFails \/ PageReturns \/ DetailFails
    \/ GetGithubData \/ StoreCommitData

(***************************************************************************)
(* Part III.  The rate-limit handling of get_github_data and               *)
(* get_all_branches (github_script.py) and of get_commits_for_jira_key     *)
(* (commits.py), with the clock                                            *)
(***************************************************************************)
\* Requests of one run.
MaxRequests == 3

Fetchers == {"get_github_data", "get_all_branches", "get_commits_for_jira_key"}
\* X-RateLimit-Remaining of an answer, and its X-RateLimit-Reset as seconds
\* after the request was sent.
Remaining == {0, 1, 2}
ResetAfter == {0, 3}

\* The answers to the request sent at `sent`; more: the page is full, or
\* links to a next page.
Answers ==
    {a \in [status : {"200", "403", "404"}, remaining : Remaining,
            reset : {sent + d : d \in ResetAfter}, more : BOOLEAN] :
        a.more => a.status = "200"}
NoAnswer == [status |-> "none", remaining |-> 2, reset |-> 0, more |-> FALSE]

\* sleep_time = max(reset_time - time.time(), 0) + margin
SleepTime(reset_time, margin) ==
    (IF reset_time - clock > 0 THEN reset_time - clock ELSE 0) + margin

\* The seconds added to the time left until the reset.
Margin(f) == IF f = "get_github_data" THEN rate_limit_sleep ELSE 5

RateInit ==
    /\ fetcher \in Fetchers
    /\ clock = 0
    /\ rlpc = "request"
    /\ tries = 0
    /\ response = NoAnswer
    /\ sent = 0
    /\ nreq = 0
    /\ slept = 0

\* No request loop runs.
RateOff ==
    /\ fetcher = "none"
    /\ clock = 0
    /\ rlpc = "off"
    /\ tries = 0
    /\ response = NoAnswer
    /\ sent = 0
    /\ nreq = 0
    /\ slept = 0

\* session.get / requests.get: the request leaves
Send ==
    /\ rlpc = "request"
    /\ nreq < MaxRequests
    /\ sent' = clock
    /\ nreq' = nreq + 1
    /\ rlpc' = "response"
    /\ UNCHANGED <<notRate, fetcher, clock, tries, response, slept>>

\* The answer takes a second to arrive.
Tick ==
    /\ rlpc = "response"
    /\ clock = sent
    /\ clock' = clock + 1
    /\ UNCHANGED <<notRate, fetcher, rlpc, tries, response, sent, nreq, slept>>

\* The caller has nothing more to request.
Leave ==
    /\ rlpc = "request"
    /\ nreq > 0
    /\ rlpc' = "done"
    /\ UNCHANGED <<notRate, fetcher, clock, tries, response, sent, nreq, slept>>

\* The function goes on to its next request after sleeping d seconds (no
\* sleep: d = -1), or ends.
Goes(a, d, next) ==
    /\ response' = a
    /\ clock' = IF d >= 0 THEN clock + d ELSE clock
    /\ slept' = IF d >= 0 THEN 1 ELSE 0
    /\ rlpc' = next
    /\ UNCHANGED <<notRate, fetcher, sent, nreq>>

\* ---- get_github_data, lines 141-147: remaining <= 1: sleep, continue; the
\* call returns None after its last attempt and the caller calls again
GgdLimited ==
    /\ fetcher = "get_github_data" /\ rlpc = "response"
    /\ \E a \in Answers :
          /\ a.remaining <= 1
          /\ Goes(a, SleepTime(a.reset, rate_limit_sleep), "request")
    /\ tries' = (tries + 1) % max_retries

\* ---- lines 149-153: 200 or 404 with budget left: the call returns
GgdReturns ==
    /\ fetcher = "get_github_data" /\ rlpc = "response"
    /\ \E a \in Answers :
          /\ a.remaining > 1
          /\ a.status \in {"200", "404"}
          /\ Goes(a, -1, "request")
    /\ tries' = 0

\* ---- lines 154-159: another status with budget left, or an exception (no
\* answer): sleep retry_delay
GgdRetries ==
    /\ fetcher = "get_github_data" /\ rlpc = "response"
    /\ \E a \in Answers \cup {NoAnswer} :
          /\ a.remaining > 1
          /\ a.status \notin {"200", "404"}
          /\ Goes(a, retry_delay, "request")
    /\ tries' = (tries + 1) % max_retries

\* ---- get_all_branches, github_script.py lines 89-96: 403 with remaining 0:
\* sleep until the reset plus 5 s, request the page again
GabLimited ==
    /\ fetcher = "get_all_branches" /\ rlpc = "response"
    /\ \E a \in Answers :
          /\ a.status = "403" /\ a.remaining = 0
          /\ Goes(a, SleepTime(a.reset, 5), "request")
    /\ UNCHANGED tries

\* ---- lines 98-107: a full page: page += 1 and the next request
GabNextPage ==
    /\ fetcher = "get_all_branches" /\ rlpc = "response"
    /\ \E a \in Answers :
          /\ a.status = "200" /\ a.more
          /\ Goes(a, -1, "request")
    /\ UNCHANGED tries

\* ---- lines 98-119: a short or empty page, an error status that is no
\* rate limit, or an exception: the loop ends
GabEnds ==
    /\ fetcher = "get_all_branches" /\ rlpc = "response"
    /\ \E a \in Answers \cup {NoAnswer} :
          /\ ~(a.status = "403" /\ a.remaining = 0)
          /\ ~(a.status = "200" /\ a.more)
          /\ Goes(a, -1, "done")
    /\ UNCHANGED tries

\* ---- get_commits_for_jira_key, commits.py lines 158-164: 403: sleep until
\* the reset plus 5 s, request the page again
GcjLimited ==
    /\ fetcher = "get_commits_for_jira_key" /\ rlpc = "response"
    /\ \E a \in Answers :
          /\ a.status = "403"
          /\ Goes(a, SleepTime(a.reset, 5), "request")
    /\ UNCHANGED tries

\* ---- lines 166-183: a page with a next link: page += 1 and the next
\* request; lines 168-169, 181-187 and 145: the pages of the branch end, by
\* a break, and the first page of the next branch is requested
GcjNext ==
    /\ fetcher = "get_commits_for_jira_key" /\ rlpc = "response"
    /\ \E a \in Answers \cup {NoAnswer} :
          /\ a.status # "403"
          /\ Goes(a, -1, "request")
    /\ UNCHANGED tries

\* ---- lines 168-169, 181-189: the pages of the last branch end
GcjEnds ==
    /\ fetcher = "get_commits_for_jira_key" /\ rlpc = "response"
    /\ \E a \in Answers \cup {NoAnswer} :
          /\ a.status # "403"
          /\ ~(a.status = "200" /\ a.more)
          /\ Goes(a, -1, "done")
    /\ UNCHANGED tries

RateNext ==
    \/ Send \/ Tick \/ Leave
    \/ GgdLimited \/ GgdReturns \/ GgdRetries
    \/ GabLimited \/ GabNextPage \/ GabEnds
    \/ GcjLimited \/ GcjNext \/ GcjEnds

(***************************************************************************)
(* Part IV.  commits.py: map_commits_to_stages                             *)
(***************************************************************************)
\* Lengths of the two lists, and the timestamps 1..MaxDate.
MaxTransitions == 2
MaxFound == 2
MaxDate == 3

Stages == {"In Progress", "Done"}
Dates == 1..MaxDate
SeqsUpTo(S, n) == UNION {[1..k -> S] : k \in 0..n}
\* The status changes of the changelog, in the order of the changelog.
TransitionLists ==
    SeqsUpTo([to_stage : Stages, transition_date : Dates], MaxTransitions)
\* The commits found for the key, branch after branch: a commit that is
\* reachable from several branches is found once for each of them, with the
\* same sha and date.  The shas are numbered in the order in which the
\* commits are found for the first time.
CommitLists ==
    {cs \in SeqsUpTo([sha : 1..MaxFound, date : Dates], MaxFound) :
        \A i \in 1..Len(cs) :
            /\ cs[i].sha <= 1 + Cardinality({cs[j].sha : j \in 1..(i - 1)})
            /\ \A j \in 1..(i - 1) :
                   cs[j].sha = cs[i].sha => cs[j].date = cs[i].date}

\* key=lambda x: x["transition_date"], key=lambda x: x["date"]
SortKey(x) == IF "date" \in DOMAIN x THEN x.date ELSE x.transition_date

\* An insertion that puts x before the elements of its own key.
Insert_BeforeEqual(sorted, x) ==
    LET k == Cardinality({i \in 1..Len(sorted) : SortKey(sorted[i]) < SortKey(x)})
    IN  SubSeq(sorted, 1, k) \o <<x>> \o SubSeq(sorted, k + 1, Len(sorted))

\* list.sort is stable: x goes behind the elements whose key is at most its
\* own, all of which stood before it in the list.
Insert(sorted, x) ==
    LET k == Cardinality({i \in 1..Len(sorted) : SortKey(sorted[i]) <= SortKey(x)})
    IN  SubSeq(sorted, 1, k) \o <<x>> \o SubSeq(sorted, k + 1, Len(sorted))

RECURSIVE Sort(_)
Sort(list) ==
    IF list = << >> THEN << >>
    ELSE Insert(Sort(SubSeq(list, 1, Len(list) - 1)), list[Len(list)])

\* The inner loop with > for >=.
InnerLoop_Strict(stage, ts, commit_date) ==
    LET hit == {i \in 1..Len(ts) : commit_date > ts[i].transition_date}
    IN  IF hit = {} THEN stage
        ELSE ts[CHOOSE i \in hit : \A j \in hit : j <= i].to_stage

\* The inner loop left at the first transition at or before the commit.
InnerLoop_FirstHit(stage, ts, commit_date) ==
    LET hit == {i \in 1..Len(ts) : commit_date >= ts[i].transition_date}
    IN  IF hit = {} THEN stage
        ELSE ts[CHOOSE i \in hit : \A j \in hit : i <= j].to_stage

\* ---- lines 207-210: every transition at or before the commit overwrites
\* current_stage; the last one of the list that does so stays
InnerLoop(stage, ts, commit_date) ==
    LET hit == {i \in 1..Len(ts) : commit_date >= ts[i].transition_date}
    IN  IF hit = {} THEN stage
        ELSE ts[CHOOSE i \in hit : \A j \in hit : j <= i].to_stage

StageInit ==
    /\ transitions_in \in TransitionLists
    /\ commits_in \in CommitLists
    /\ transitions = transitions_in
    /\ commits = commits_in
    /\ current_stage = "none"
    /\ stage_commits = << >>
    /\ mpc = "start"

\* map_commits_to_stages does not run.
StageOff ==
    /\ transitions_in = << >>
    /\ commits_in = << >>
    /\ transitions = << >>
    /\ commits = << >>
    /\ current_stage = "none"
    /\ stage_commits = << >>
    /\ mpc = "off"

\* ---- lines 196-197: no commits: return []
NoCommits ==
    /\ mpc = "start"
    /\ commits = << >>
    /\ mpc' = "done"
    /\ UNCHANGED <<notStage, transitions_in, commits_in, transitions, commits,
                   current_stage, stage_commits>>

\* ---- lines 199-203: both lists are sorted in place
SortLists ==
    /\ mpc = "start"
    /\ commits # << >>
    /\ transitions' = Sort(transitions)
    /\ commits' = Sort(commits)
    /\ current_stage' = "TO DO"
    /\ stage_commits' = << >>
    /\ mpc' = "loop"
    /\ UNCHANGED <<notStage, transitions_in, commits_in>>

\* ---- lines 205-217: the next commit
StageCommit ==
    /\ mpc = "loop"
    /\ Len(stage_commits) < Len(commits)
    /\ LET commit == commits[Len(stage_commits) + 1]
           stage == InnerLoop(current_stage, transitions, commit.date)
       IN  /\ current_stage' = stage
           /\ stage_commits' = Append(stage_commits,
                  [commit_sha |-> commit.sha, commit_date |-> commit.date,
                   stage |-> stage])
    /\ UNCHANGED <<notStage, transitions_in, commits_in, transitions, commits, mpc>>

\* ---- line 219: return stage_commits
ReturnStages ==
    /\ mpc = "loop"
    /\ Len(stage_commits) = Len(commits)
    /\ mpc' = "done"
    /\ UNCHANGED <<notStage, transitions_in, commits_in, transitions, commits,
                   current_stage, stage_commits>>

StageNext == NoCommits \/ SortLists \/ StageCommit \/ ReturnStages

(***************************************************************************)
(* Part V.  Contributors.py: extract_jira_issue_keys                       *)
(***************************************************************************)
\* Length of the message.
MaxMessage == 6

\* The characters of the messages: a lowercase and an uppercase letter, a
\* digit, the hyphen and the space.
Chars == {"p", "P", "1", "-", " "}
Messages == SeqsUpTo(Chars, MaxMessage)

\* str.upper()
UpperChar(c) == IF c = "p" THEN "P" ELSE c
Upper(text) == [i \in 1..Len(text) |-> UpperChar(text[i])]

\* [A-Z], [0-9] and [A-Z0-9]
Letters == {"P"}
Digits == {"1"}
AlNums == Letters \cup Digits

\* The first index from i on whose character is not of the class, or
\* Len(text) + 1.
RunEnd(text, i, class) ==
    LET stops == {j \in i..Len(text) : text[j] \notin class}
    IN  IF stops = {} THEN Len(text) + 1
        ELSE CHOOSE j \in stops : \A k \in stops : j <= k

\* The match of [A-Z][A-Z0-9]*-[0-9]+ that starts at index i: the index of
\* its last character, 0 when there is none.  The hyphen is no [A-Z0-9], so
\* the greedy run ends right before it.
MatchEnd(text, i) ==
    IF text[i] \notin Letters THEN 0
    ELSE LET h == RunEnd(text, i + 1, AlNums)
         IN  IF h + 1 <= Len(text) /\ text[h] = "-" /\ text[h + 1] \in Digits
             THEN RunEnd(text, h + 1, Digits) - 1
             ELSE 0

\* re.findall: the matches from left to right, each search starting behind
\* the match before it.
RECURSIVE FindAll(_, _)
FindAll(text, i) ==
    IF i > Len(text) THEN << >>
    ELSE IF MatchEnd(text, i) > 0
    THEN <<SubSeq(text, i, MatchEnd(text, i))>> \o FindAll(text, MatchEnd(text, i) + 1)
    ELSE FindAll(text, i + 1)

KeyInit ==
    /\ message \in Messages
    /\ issue_keys = << >>
    /\ kpc = "start"

\* extract_jira_issue_keys does not run.
KeyOff ==
    /\ message = << >>
    /\ issue_keys = << >>
    /\ kpc = "off"

\* ---- lines 64-65: an empty message: return []
EmptyMessage ==
    /\ kpc = "start"
    /\ message = << >>
    /\ issue_keys' = << >>
    /\ kpc' = "done"
    /\ UNCHANGED <<notKey, message>>

\* ---- line 67: re.findall on message.upper()
ExtractKeys ==
    /\ kpc = "start"
    /\ message # << >>
    /\ issue_keys' = FindAll(Upper(message), 1)
    /\ kpc' = "done"
    /\ UNCHANGED <<notKey, message>>

KeyNext == EmptyMessage \/ ExtractKeys

(***************************************************************************)
(* Part VI.  github_script.py: extract_tags                                *)
(***************************************************************************)
\* Number of pieces a message is put together from.
MaxPieces == 5

\* The messages are put together from these pieces: the hash, the keyword,
\* its optional plural and colon, a space, a digit and another word
\* character.
Pieces == {<<"#">>, <<"t", "a", "g">>, <<"s">>, <<":">>, <<" ">>, <<"1">>, <<"x">>}

RECURSIVE Concat(_)
Concat(ps) == IF ps = << >> THEN << >> ELSE Head(ps) \o Concat(Tail(ps))

TagMessages == {Concat(ps) : ps \in SeqsUpTo(Pieces, MaxPieces)}

\* The literal of lines 657 and 663.
NoTagFound == <<"N", "o", " ", "t", "a", "g", " ", "f", "o", "u", "n", "d">>

\* \w and \s
Words == {"t", "a", "g", "s", "x", "1"}
Spaces == {" "}

\* The character at index i, "" behind the end of the text.
At(text, i) == IF i <= Len(text) THEN text[i] ELSE ""

\* #(\w+) at index i: the index of the last character of the match, 0 when
\* there is none.
HashEnd(text, i) ==
    IF At(text, i) = "#" /\ At(text, i + 1) \in Words
    THEN RunEnd(text, i + 1, Words) - 1
    ELSE 0

\* tags?:?\s*(\d+) at index i: the index of the first digit of the group, 0
\* when there is no match.  A character taken by s?, :? or \s* is none the
\* rest of the pattern could take, so the greedy choice is the only one.
KeywordDigits(text, i) ==
    IF At(text, i) = "t" /\ At(text, i + 1) = "a" /\ At(text, i + 2) = "g"
    THEN LET a == i + 3
             b == IF At(text, a) = "s" THEN a + 1 ELSE a
             c == IF At(text, b) = ":" THEN b + 1 ELSE b
             d == RunEnd(text, c, Spaces)
         IN  IF At(text, d) \in Digits THEN d ELSE 0
    ELSE 0

\* The match of the whole pattern at index i: the index of its last
\* character, 0 when there is none.  The first alternative is tried first.
TagMatchEnd(text, i) ==
    IF HashEnd(text, i) > 0 THEN HashEnd(text, i)
    ELSE IF KeywordDigits(text, i) > 0
    THEN RunEnd(text, KeywordDigits(text, i), Digits) - 1
    ELSE 0

\* The pair of groups re.findall yields for the match at index i: a group
\* that took no part in the match is the empty string.
TagGroups(text, i) ==
    IF HashEnd(text, i) > 0
    THEN <<SubSeq(text, i + 1, HashEnd(text, i)), << >> >>
    ELSE <<<< >>, SubSeq(text, KeywordDigits(text, i), TagMatchEnd(text, i))>>

\* re.findall, line 658
RECURSIVE FindAllTags(_, _)
FindAllTags(text, i) ==
    IF i > Len(text) THEN << >>
    ELSE IF TagMatchEnd(text, i) > 0
    THEN <<TagGroups(text, i)>> \o FindAllTags(text, TagMatchEnd(text, i) + 1)
    ELSE FindAllTags(text, i + 1)

NonEmpty(t) == t # << >>

\* A variant that keeps the empty group of every pair.
RECURSIVE CleanTags_KeepsEmpty(_)
CleanTags_KeepsEmpty(tags) ==
    IF tags = << >> THEN << >>
    ELSE Head(tags) \o CleanTags_KeepsEmpty(Tail(tags))

\* ---- lines 659-661: the groups of every pair that are not empty
RECURSIVE CleanTags(_)
CleanTags(tags) ==
    IF tags = << >> THEN << >>
    ELSE SelectSeq(Head(tags), NonEmpty) \o CleanTags(Tail(tags))

TagInit ==
    /\ tag_message \in TagMessages
    /\ cleaned_tags = << >>
    /\ tpc = "start"

\* extract_tags does not run.
TagOff ==
    /\ tag_message = << >>
    /\ cleaned_tags = << >>
    /\ tpc = "off"

\* ---- lines 656-657: an empty message
NoMessage ==
    /\ tpc = "start"
    /\ tag_message = << >>
    /\ cleaned_tags' = <<NoTagFound>>
    /\ tpc' = "done"
    /\ UNCHANGED <<notTag, tag_message>>

\* ---- lines 658-663: tags were matched
TagsFound ==
    /\ tpc = "start"
    /\ tag_message # << >>
    /\ CleanTags(FindAllTags(tag_message, 1)) # << >>
    /\ cleaned_tags' = CleanTags(FindAllTags(tag_message, 1))
    /\ tpc' = "done"
    /\ UNCHANGED <<notTag, tag_message>>

\* ---- lines 658-663: nothing was matched
NoTagsFound ==
    /\ tpc = "start"
    /\ tag_message # << >>
    /\ CleanTags(FindAllTags(tag_message, 1)) = << >>
    /\ cleaned_tags' = <<NoTagFound>>
    /\ tpc' = "done"
    /\ UNCHANGED <<notTag, tag_message>>

TagNext == NoMessage \/ TagsFound \/ NoTagsFound

(***************************************************************************)
(* Part VII.  Contributors.py: JiraProcessor.process_commit_jira_links     *)
(***************************************************************************)
\* Rows the query returns, and issue keys in one commit message.
MaxRows == 3
MaxKeys == 2
\* JiraProcessor instances, one after the other (the script is run again).
MaxRuns == 2

\* commit_contributors.login: TRIM(author) of populate_commit_contributors_
\* from_commits, which removes spaces only and keeps the letter case and a
\* tab.
Logins == {"Bob", "bob", "bob\t"}
IssueKeys == {"K-1", "K-2"}
Names == {"Ann", "Joe"}

\* str.lower()
Lower(login) == IF login = "Bob" THEN "bob" ELSE login
NormLogins == {Lower(l) : l \in Logins}

\* No entry in a dict, no row in a table, NULL in a column.
NoEntry == "-"

\* What _fetch_jira_issue returns: None, an issue without an assignee (or
\* one without a display name), or an issue with its assignee's display name.
Issues == {"None", "unassigned"} \cup Names

NotLearned == [row |-> 0, name |-> NoEntry]

\* A variant that loads nothing.
LoadLoginMappings_Nothing(table) == [k \in NormLogins |-> NoEntry]

\* ---- lines 76-81, _load_login_mappings: the dict built from the rows of
\* user_login_mappings, keyed by login.lower()
LoadLoginMappings(table) ==
    [k \in NormLogins |->
        LET from == {t \in DOMAIN table : table[t] # NoEntry /\ Lower(t) = k}
        IN  IF from = {} THEN NoEntry ELSE table[CHOOSE t \in from : TRUE]]

\* ---- lines 70-74: the tables and the first JiraProcessor(), its map loaded
\* from user_login_mappings
LinkInit ==
    /\ user_login_mappings \in [NormLogins -> {NoEntry, "Ann"}]
    /\ team_saved = [l \in Logins |-> NoEntry]
    /\ runs = 1
    /\ persisted = {}
    /\ link_rows = << >>
    /\ nkeys = 0
    /\ github_jira_mapping = LoadLoginMappings(user_login_mappings)
    /\ issue_cache = [k \in IssueKeys |-> NoEntry]
    /\ team_member = team_saved
    /\ fetched_for = {}
    /\ learned = [l \in NormLogins |-> NotLearned]
    /\ requested = [k \in IssueKeys |-> 0]
    /\ lpc = "loop"

\* process_commit_jira_links does not run.
LinkOff ==
    /\ link_rows = << >>
    /\ nkeys = 0
    /\ github_jira_mapping = [l \in NormLogins |-> NoEntry]
    /\ issue_cache = [k \in IssueKeys |-> NoEntry]
    /\ team_member = [l \in Logins |-> NoEntry]
    /\ team_saved = [l \in Logins |-> NoEntry]
    /\ user_login_mappings = [l \in NormLogins |-> NoEntry]
    /\ runs = 0
    /\ fetched_for = {}
    /\ learned = [l \in NormLogins |-> NotLearned]
    /\ persisted = {}
    /\ requested = [k \in IssueKeys |-> 0]
    /\ lpc = "off"

\* A variant that never finds a login in the map.
InMapping_Never(l) == FALSE

\* ---- line 149: normalized_login in self.github_jira_mapping
InMapping(l) == github_jira_mapping[l] # NoEntry

\* ---- lines 146-156: the next row's login is in the map: the row is
\* updated from the map, continue
ResolveFromMap ==
    /\ lpc = "loop"
    /\ Len(link_rows) < MaxRows
    /\ \E login \in Logins :
          /\ InMapping(Lower(login))
          /\ link_rows' = Append(link_rows, login)
          /\ team_member' = [team_member EXCEPT ![login] = github_jira_mapping[Lower(login)]]
    /\ UNCHANGED <<notLink, nkeys, github_jira_mapping, issue_cache, team_saved,
                   user_login_mappings, runs, fetched_for, learned, persisted, requested,
                   lpc>>

\* ---- lines 146-159: the next row's login is not in the map: the issue
\* keys of its message are tried (the query selects messages with a key)
NoMapping ==
    /\ lpc = "loop"
    /\ Len(link_rows) < MaxRows
    /\ \E login \in Logins :
          /\ ~InMapping(Lower(login))
          /\ link_rows' = Append(link_rows, login)
    /\ nkeys' = 0
    /\ lpc' = "keys"
    /\ UNCHANGED <<notLink, github_jira_mapping, issue_cache, team_member, team_saved,
                   user_login_mappings, runs, fetched_for, learned, persisted, requested>>

\* ---- lines 161-183: the issue of one key is looked at; `last` says that
\* the message holds no further key.
Look(issue, last) ==
    LET login == link_rows[Len(link_rows)]
    IN  /\ fetched_for' = fetched_for \cup {Len(link_rows)}
        /\ IF issue \in Names
           THEN /\ github_jira_mapping' =
                       [github_jira_mapping EXCEPT ![Lower(login)] = issue]
                /\ learned' = [learned EXCEPT
                                  ![Lower(login)] = [row |-> Len(link_rows), name |-> issue]]
                /\ team_member' = [team_member EXCEPT ![login] = issue]
                /\ nkeys' = 0
                /\ lpc' = "loop"
           ELSE /\ UNCHANGED <<github_jira_mapping, learned, team_member>>
                /\ nkeys' = IF last THEN 0 ELSE nkeys + 1
                /\ lpc' = IF last THEN "loop" ELSE "keys"

\* ---- lines 159-160, 227-228: the key's issue is in the cache
CachedIssue ==
    /\ lpc = "keys"
    /\ \E key \in IssueKeys, last \in BOOLEAN :
          /\ nkeys + 1 = MaxKeys => last
          /\ issue_cache[key] # NoEntry
          /\ Look(issue_cache[key], last)
    /\ UNCHANGED <<notLink, link_rows, issue_cache, team_saved, user_login_mappings,
                   runs, persisted, requested>>

\* The cache without the entries of line 247: an issue that was not found
\* is not remembered.
Cached_FoundOnly(cache, key, issue) ==
    IF issue = "None" THEN cache ELSE [cache EXCEPT ![key] = issue]

\* ---- lines 239, 247: self.issue_cache[issue_key] = issue, or None
Cached(cache, key, issue) == [cache EXCEPT ![key] = issue]

\* ---- lines 159-160, 230-248: the key's issue is requested from Jira and
\* cached, None on an HTTP error
FetchJiraIssue ==
    /\ lpc = "keys"
    /\ \E key \in IssueKeys, last \in BOOLEAN, issue \in Issues :
          /\ nkeys + 1 = MaxKeys => last
          /\ issue_cache[key] = NoEntry
          /\ requested' = [requested EXCEPT ![key] = @ + 1]
          /\ issue_cache' = Cached(issue_cache, key, issue)
          /\ Look(issue, last)
    /\ UNCHANGED <<notLink, link_rows, team_saved, user_login_mappings, runs, persisted>>

\* The pass is left by an exception: async_main (lines 354-366) prints it,
\* nothing is committed and the connection's updates are lost.
Raised(how) ==
    /\ lpc' = how
    /\ team_member' = team_saved
    /\ UNCHANGED <<notLink, link_rows, nkeys, github_jira_mapping, issue_cache,
                   team_saved, user_login_mappings, runs, fetched_for, learned,
                   persisted>>

\* ---- lines 230-236, 243: requests.get raises a ConnectionError or a
\* Timeout, which is no HTTPError: _fetch_jira_issue does not catch it, nor
\* does process_commit_jira_links
FetchRaises ==
    /\ lpc = "keys"
    /\ \E key \in IssueKeys :
          /\ issue_cache[key] = NoEntry
          /\ requested' = [requested EXCEPT ![key] = @ + 1]
    /\ Raised("fetch_raised")

\* ---- lines 151-155, 177-182, 116-132: a statement raises a database error
StatementRaises ==
    /\ lpc \in {"loop", "keys"}
    /\ Raised("db_raised")
    /\ UNCHANGED requested

\* ---- lines 113-132, 185-187: the rows are exhausted: _update_login_mappings
\* upserts every entry of the map into user_login_mappings and updates the
\* rows of commit_contributors whose login is a key of the map; commit
FinishLinks ==
    /\ lpc = "loop"
    /\ user_login_mappings' =
           [l \in NormLogins |->
               IF github_jira_mapping[l] # NoEntry THEN github_jira_mapping[l]
               ELSE user_login_mappings[l]]
    /\ team_member' = [l \in Logins |->
                          IF l \in NormLogins /\ github_jira_mapping[l] # NoEntry
                          THEN github_jira_mapping[l] ELSE team_member[l]]
    /\ team_saved' = team_member'
    /\ persisted' = persisted \cup {l \in NormLogins : learned[l].row > 0}
    /\ lpc' = "done"
    /\ UNCHANGED <<notLink, link_rows, nkeys, github_jira_mapping, issue_cache,
                   runs, fetched_for, learned, requested>>

\* ---- lines 351-362, 70-74: the script is run again: a new JiraProcessor,
\* its map loaded from user_login_mappings, and its process_commit_jira_links
RunAgain ==
    /\ lpc \in {"done", "fetch_raised", "db_raised"}
    /\ runs < MaxRuns
    /\ runs' = runs + 1
    /\ link_rows' = << >>
    /\ nkeys' = 0
    /\ github_jira_mapping' = LoadLoginMappings(user_login_mappings)
    /\ issue_cache' = [k \in IssueKeys |-> NoEntry]
    /\ team_member' = team_saved
    /\ fetched_for' = {}
    /\ learned' = [l \in NormLogins |-> NotLearned]
    /\ requested' = [k \in IssueKeys |-> 0]
    /\ lpc' = "loop"
    /\ UNCHANGED <<notLink, team_saved, user_login_mappings, persisted>>

LinkNext ==
    \/ ResolveFromMap
    \/ NoMapping
    \/ CachedIssue
    \/ FetchJiraIssue
    \/ FetchRaises
    \/ StatementRaises
    \/ FinishLinks
    \/ RunAgain

(***************************************************************************)
(* Part VIII.  jira_script.py: the main loop and the store functions of    *)
(* JiraGitHubIntegrator, on its one connection                             *)
(***************************************************************************)
StoredShas == {"c1", "c2"}

\* The tables jira_detail, jira_parent and jira_issue_link, by the issue
\* keys whose rows they hold.
NoRows == [detail |-> {}, parent |-> {}, links |-> {}]
\* A call of store_commit_jira_mappings: its key, the count returned (-1
\* while it runs) and what its two inner calls did.
NoCall == [key |-> NULL, count |-> 0, parent |-> "none", links |-> "none"]

StoreInit ==
    /\ references \in [StoredShas -> SUBSET Keys]
    /\ cj_table = {}
    /\ cj_calls = << >>
    /\ jira_db = NoRows
    /\ view = [rows |-> NoRows, commit_jira |-> {}, aborted |-> FALSE]
    /\ issue_no = 1
    /\ spc = "history"
    /\ detail_returned = [k \in Keys |-> -1]
    /\ call = NoCall

\* The main loop does not run.
StoreOff ==
    /\ references = [c \in StoredShas |-> {}]
    /\ cj_table = {}
    /\ cj_calls = << >>
    /\ jira_db = NoRows
    /\ view = [rows |-> NoRows, commit_jira |-> {}, aborted |-> FALSE]
    /\ issue_no = 0
    /\ spc = "off"
    /\ detail_returned = [k \in Keys |-> -1]
    /\ call = NoCall

\* ---- line 769: jira_key of the issue of the loop
JiraKey == KeySeq[issue_no]

\* ---- lines 288-296, get_github_commits_for_jira_key: the commits whose
\* message names the key
CommitsFor(jira_key) == {c \in StoredShas : jira_key \in references[c]}

\* self.db_conn.commit(): the connection's writes become the tables; the
\* COMMIT of a failed transaction rolls it back.
ConnCommit(v) ==
    /\ cj_table' = IF v.aborted THEN cj_table ELSE v.commit_jira
    /\ jira_db' = IF v.aborted THEN jira_db ELSE v.rows
    /\ view' = IF v.aborted
               THEN [rows |-> jira_db, commit_jira |-> cj_table, aborted |-> FALSE]
               ELSE v

\* self.db_conn.rollback(): the connection's writes are dropped.
ConnRollback ==
    /\ view' = [rows |-> jira_db, commit_jira |-> cj_table, aborted |-> FALSE]
    /\ UNCHANGED <<cj_table, jira_db>>

\* The next issue of the loop, or the end of the script: no commit, the
\* connection is not closed.
NextIssue ==
    /\ issue_no' = issue_no + 1
    /\ spc' = IF issue_no < Len(KeySeq) THEN "history" ELSE "done"

\* ---- store_single_jira_history, lines 646-656: the changelog has records:
\* INSERT INTO jira_history, commit
HistoryStored ==
    /\ spc = "history"
    /\ ~view.aborted
    /\ ConnCommit(view)
    /\ spc' = "details"
    /\ UNCHANGED <<notStore, references, cj_calls, issue_no, detail_returned, call>>

\* ---- lines 630-646: no record in the changelog: no statement, no commit
HistoryEmpty ==
    /\ spc = "history"
    /\ spc' = "details"
    /\ UNCHANGED <<notStore, references, cj_table, cj_calls, jira_db, view, issue_no,
                   detail_returned, call>>

\* ---- lines 657-660: the request or the statement raises: rollback
HistoryRaises ==
    /\ spc = "history"
    /\ ConnRollback
    /\ spc' = "details"
    /\ UNCHANGED <<notStore, references, cj_calls, issue_no, detail_returned, call>>

\* ---- line 775: commits is not empty: store_commit_jira_mappings is called
AfterDetails ==
    IF CommitsFor(JiraKey) # {}
    THEN spc' = "mappings" /\ issue_no' = issue_no
    ELSE NextIssue

\* ---- store_jira_details_only, lines 700-721: the INSERT ... ON CONFLICT
\* (jira_key) DO UPDATE is executed; return 1 with no commit
DetailsStored ==
    /\ spc = "details"
    /\ ~view.aborted
    /\ view' = [view EXCEPT !.rows.detail = @ \cup {JiraKey}]
    /\ detail_returned' = [detail_returned EXCEPT ![JiraKey] = 1]
    /\ AfterDetails
    /\ UNCHANGED <<notStore, references, cj_table, cj_calls, jira_db, call>>

\* ---- lines 717-719: the statement raises: return 0 with no rollback, the
\* transaction stays aborted
DetailsRejected ==
    /\ spc = "details"
    /\ view' = [view EXCEPT !.aborted = TRUE]
    /\ detail_returned' = [detail_returned EXCEPT ![JiraKey] = 0]
    /\ AfterDetails
    /\ UNCHANGED <<notStore, references, cj_table, cj_calls, jira_db, call>>

\* ---- lines 665-668, 723-725: no details of the issue: return 0
DetailsNotFetched ==
    /\ spc = "details"
    /\ detail_returned' = [detail_returned EXCEPT ![JiraKey] = 0]
    /\ AfterDetails
    /\ UNCHANGED <<notStore, references, cj_table, cj_calls, jira_db, view, call>>

\* ---- store_commit_jira_mappings, lines 599-606: INSERT INTO commit_jira
\* ... ON CONFLICT (sha) DO NOTHING for every commit of the key
MappingsInserted ==
    /\ spc = "mappings"
    /\ ~view.aborted
    /\ view' = [view EXCEPT !.commit_jira = @ \cup
                   {<<JiraKey, c>> : c \in {x \in CommitsFor(JiraKey) :
                                               \A pr \in view.commit_jira : pr[2] # x}}]
    /\ call' = [key |-> JiraKey, count |-> -1, parent |-> "none", links |-> "none"]
    /\ spc' = "parent"
    /\ UNCHANGED <<notStore, references, cj_table, cj_calls, jira_db, issue_no,
                   detail_returned>>

\* ---- lines 617-621: the statement raises: rollback, return 0
MappingsRaises ==
    /\ spc = "mappings"
    /\ ConnRollback
    /\ call' = [key |-> JiraKey, count |-> 0, parent |-> "none", links |-> "none"]
    /\ cj_calls' = Append(cj_calls, NULL)
    /\ NextIssue
    /\ UNCHANGED <<notStore, references, detail_returned>>

\* ---- store_jira_parent_relationships, lines 455-468: INSERT INTO
\* jira_parent, commit
ParentStored ==
    /\ spc = "parent"
    /\ ConnCommit([view EXCEPT !.rows.parent = @ \cup {JiraKey}])
    /\ call' = [call EXCEPT !.parent = "stored"]
    /\ spc' = "links"
    /\ UNCHANGED <<notStore, references, cj_calls, issue_no, detail_returned>>

\* ---- lines 410-412, 450-452, 470-471: the request fails or the issue has
\* no parent: return 0
ParentNothing ==
    /\ spc = "parent"
    /\ call' = [call EXCEPT !.parent = "nothing"]
    /\ spc' = "links"
    /\ UNCHANGED <<notStore, references, cj_table, cj_calls, jira_db, view, issue_no,
                   detail_returned>>

\* ---- lines 472-476: the statement raises: rollback, return 0
ParentRaises ==
    /\ spc = "parent"
    /\ ConnRollback
    /\ call' = [call EXCEPT !.parent = "raised"]
    /\ spc' = "links"
    /\ UNCHANGED <<notStore, references, cj_calls, issue_no, detail_returned>>

\* ---- store_jira_issue_links, lines 541-568: DELETE and INSERT INTO
\* jira_issue_link, commit
LinksStored ==
    /\ spc = "links"
    /\ ConnCommit([view EXCEPT !.rows.links = @ \cup {JiraKey}])
    /\ call' = [call EXCEPT !.links = "stored"]
    /\ spc' = "commit"
    /\ UNCHANGED <<notStore, references, cj_calls, issue_no, detail_returned>>

\* ---- lines 570-571, 577: the request for the links fails: return 0
LinksNotFetched ==
    /\ spc = "links"
    /\ call' = [call EXCEPT !.links = "nothing"]
    /\ spc' = "commit"
    /\ UNCHANGED <<notStore, references, cj_table, cj_calls, jira_db, view, issue_no,
                   detail_returned>>

\* ---- lines 572-577: a statement raises: rollback, return 0
LinksRaises ==
    /\ spc = "links"
    /\ ConnRollback
    /\ call' = [call EXCEPT !.links = "raised"]
    /\ spc' = "commit"
    /\ UNCHANGED <<notStore, references, cj_calls, issue_no, detail_returned>>

\* ---- store_commit_jira_mappings, lines 613-615: commit, return
\* len(commit_records)
MappingsCommit ==
    /\ spc = "commit"
    /\ ConnCommit(view)
    /\ call' = [call EXCEPT !.count = Cardinality(CommitsFor(JiraKey))]
    /\ cj_calls' = Append(cj_calls,
                      IF call.parent = "raised"
                         \/ (call.links = "raised" /\ call.parent # "stored")
                      THEN NULL ELSE JiraKey)
    /\ NextIssue
    /\ UNCHANGED <<notStore, references, detail_returned>>

StoreSingleJiraHistory == HistoryStored \/ HistoryEmpty \/ HistoryRaises
StoreJiraDetailsOnly == DetailsStored \/ DetailsRejected \/ DetailsNotFetched
StoreJiraParentRelationships == ParentStored \/ ParentNothing \/ ParentRaises
StoreJiraIssueLinks == LinksStored \/ LinksNotFetched \/ LinksRaises
StoreNext ==
    \/ StoreSingleJiraHistory
    \/ StoreJiraDetailsOnly
    \/ MappingsInserted \/ MappingsRaises
    \/ StoreJiraParentRelationships
    \/ StoreJiraIssueLinks
    \/ MappingsCommit

(***************************************************************************)
(* Part IX.  Contributors.py: _fetch_all_jira_issues                       *)
(***************************************************************************)
\* Issues of the remote collection (at most); issue i stands at offset i - 1.
MaxRemote == 9
\* The maxResults of a request; the code asks for 100.
MaxResults == 3
\* Requests that raise requests.RequestException, in one fetch.
MaxRequestErrors == 1

\* GET /rest/api/3/search?startAt=s: the server answers with n issues from
\* offset s on.
SearchPage(s, n) == [i \in 1..n |-> s + i]
\* The sizes a page at offset s may have: at least one issue while issues
\* are left, at most maxResults, none behind the end of the collection.
PageSizes(s) ==
    IF s >= jira_total THEN {0}
    ELSE {n \in 1..MaxResults : s + n <= jira_total}

JiraFetchInit ==
    /\ jira_total \in 0..MaxRemote
    /\ start_at = 0
    /\ fetched_issues = << >>
    /\ page_sizes = << >>
    /\ request_errors = 0
    /\ jpc = "request"

\* _fetch_all_jira_issues does not run.
JiraFetchOff ==
    /\ jira_total = 0
    /\ start_at = 0
    /\ fetched_issues = << >>
    /\ page_sizes = << >>
    /\ request_errors = 0
    /\ jpc = "off"

\* start_at += max_results left out: the next request starts behind the
\* last issue received.
NextStart_Received(n) == start_at + n

\* ---- line 215: start_at += max_results
NextStart(n) == start_at + MaxResults

\* ---- lines 196-218: a page with issues: extend the list, move start_at;
\* break when start_at has reached the total of the answer
SearchReturns ==
    /\ jpc = "request"
    /\ \E n \in PageSizes(start_at) :
          /\ n > 0
          /\ fetched_issues' = fetched_issues \o SearchPage(start_at, n)
          /\ page_sizes' = Append(page_sizes, n)
          /\ start_at' = NextStart(n)
          /\ jpc' = IF NextStart(n) >= jira_total THEN "done" ELSE "request"
    /\ UNCHANGED <<notJiraFetch, jira_total, request_errors>>

\* ---- lines 210-212: no issues in the answer: break
SearchReturnsNothing ==
    /\ jpc = "request"
    /\ 0 \in PageSizes(start_at)
    /\ page_sizes' = Append(page_sizes, 0)
    /\ jpc' = "done"
    /\ UNCHANGED <<notJiraFetch, jira_total, start_at, fetched_issues,
                   request_errors>>

\* ---- lines 207, 220-222: the request raises, or the status is an error:
\* break with the issues received so far
SearchRaises ==
    /\ jpc = "request"
    /\ request_errors < MaxRequestErrors
    /\ request_errors' = request_errors + 1
    /\ jpc' = "done"
    /\ UNCHANGED <<notJiraFetch, jira_total, start_at, fetched_issues, page_sizes>>

JiraFetchNext == SearchReturns \/ SearchReturnsNothing \/ SearchRaises

(***************************************************************************)
(* Part X.  jira_script.py: _fetch_paginated_jira_data                     *)
(***************************************************************************)
PagedInit ==
    /\ search_total \in 0..MaxRemote
    /\ search_start = 0
    /\ results = << >>
    /\ search_turn = 0
    /\ ppc = "request"

\* _fetch_paginated_jira_data does not run.
PagedOff ==
    /\ search_total = 0
    /\ search_start = 0
    /\ results = << >>
    /\ search_turn = 0
    /\ ppc = "off"

\* The numbers of issues an answer to startAt=s may carry: none (the "issues"
\* of the answer are empty or missing), or up to maxResults of those left.
AnswerSizes(s) == {n \in 0..MaxResults : s + n <= search_total}

\* The loop left when an answer carries no issues.
AfterAnswer_EmptyEnds(n) ==
    IF n = 0 \/ search_start + n >= search_total THEN "done" ELSE "request"

\* ---- lines 221-222: break when start_at has reached the total
AfterAnswer(n) ==
    IF search_start + n >= search_total THEN "done" ELSE "request"

\* ---- lines 200-222: one request and its answer: extend results, move
\* start_at by the number of issues received, test start_at against total
PagedAnswer ==
    /\ ppc = "request"
    /\ \E n \in AnswerSizes(search_start) :
          /\ results' = results \o [i \in 1..n |-> search_start + i]
          /\ search_start' = search_start + n
          /\ ppc' = AfterAnswer(n)
    /\ search_turn' = 1 - search_turn
    /\ UNCHANGED <<notPaged, search_total>>

\* ---- lines 224-226: requests.exceptions.RequestException: break
PagedRaises ==
    /\ ppc = "request"
    /\ ppc' = "done"
    /\ search_turn' = 1 - search_turn
    /\ UNCHANGED <<notPaged, search_total, search_start, results>>

PagedNext == PagedAnswer \/ PagedRaises

(***************************************************************************)
(* Part XI.  get_all_branches of commits.py and of github_script.py        *)
(***************************************************************************)
\* Branches of the repository (at most), listed PerPage to a page.
MaxBranches == 7

Listings == {"commits.py", "github_script.py"}

BranchesInit ==
    /\ listing \in Listings
    /\ remote_branches \in 0..MaxBranches
    /\ branch_page = 1
    /\ branches = << >>
    /\ branch_turn = 0
    /\ bpc = "request"

\* get_all_branches does not run.
BranchesOff ==
    /\ listing = "none"
    /\ remote_branches = 0
    /\ branch_page = 1
    /\ branches = << >>
    /\ branch_turn = 0
    /\ bpc = "off"

\* GET .../branches?per_page=..&page=p: the branches of page p.
BranchPage(p) ==
    LET first == (p - 1) * PerPage + 1
        last == IF p * PerPage < remote_branches THEN p * PerPage
                ELSE remote_branches
    IN  [i \in 1..(IF last >= first THEN last - first + 1 ELSE 0) |-> first + i - 1]

\* The rate-limit branch taken once: the answer that follows it ends the loop.
AfterSleep_GivesUp == "done"

\* ---- commits.py line 118, github_script.py line 96: continue
AfterSleep == "request"

\* ---- commits.py lines 113-118: status 403; github_script.py lines 90-96:
\* status 403 with X-RateLimit-Remaining 0: sleep until the reset plus 5 s,
\* then the same page is requested again
BranchesLimited ==
    /\ bpc = "request"
    /\ bpc' = AfterSleep
    /\ branch_turn' = 1 - branch_turn
    /\ UNCHANGED <<notBranches, listing, remote_branches, branch_page, branches>>

\* ---- commits.py lines 120-128, github_script.py lines 98-107: status 200:
\* an empty page ends the loop; the names are added; a short page ends the
\* loop, a full page leads to the next page
BranchesReturned ==
    /\ bpc = "request"
    /\ LET data == BranchPage(branch_page)
       IN  /\ branches' = branches \o data
           /\ branch_page' = IF Len(data) < PerPage THEN branch_page
                             ELSE branch_page + 1
           /\ bpc' = IF Len(data) < PerPage THEN "done" ELSE "request"
    /\ branch_turn' = 1 - branch_turn
    /\ UNCHANGED <<notBranches, listing, remote_branches>>

\* ---- commits.py lines 130-132, github_script.py lines 109-117: another
\* error status (in github_script.py also a 403 that is no rate limit), or
\* an exception of the request: break
BranchesFails ==
    /\ bpc = "request"
    /\ bpc' = "done"
    /\ branch_turn' = 1 - branch_turn
    /\ UNCHANGED <<notBranches, listing, remote_branches, branch_page, branches>>

BranchesNext == BranchesLimited \/ BranchesReturned \/ BranchesFails

(***************************************************************************)
(* Part XII.  commits.py: save_to_postgres                                 *)
(***************************************************************************)
\* Calls of save_to_postgres, over the runs of the script.
MaxSaves == 2

\* An element of the list map_commits_to_stages returns for a key; the
\* stage of a commit differs between runs when the changelog has changed.
StageEntries(jira_key) ==
    [jira_key : {jira_key}, commit_sha : StoredShas, commit_date : 1..2,
     stage : {"TO DO", "Done"}]

SaveInit ==
    /\ jira_commit_stages = EmptyBag
    /\ saves = 0
    /\ rewritten = FALSE

\* save_to_postgres does not run.
SaveOff ==
    /\ jira_commit_stages = EmptyBag
    /\ saves = -1
    /\ rewritten = FALSE

\* The rows of the table that conflict with the entry on the unique index
\* (jira_key, commit_sha).
SamePair(table, entry) ==
    {r \in BagToSet(table) : /\ r.jira_key = entry.jira_key
                             /\ r.commit_sha = entry.commit_sha}

\* The statement with DO UPDATE SET stage, commit_date in the place of DO
\* NOTHING.
InsertEntry_DoUpdate(table, entry) ==
    IF SamePair(table, entry) = {} THEN table (+) SetToBag({entry})
    ELSE SetToBag((BagToSet(table) \ SamePair(table, entry)) \cup {entry})

\* ---- lines 227-237: INSERT INTO jira_commit_stages ... ON CONFLICT
\* (jira_key, commit_sha) DO NOTHING
InsertEntry(table, entry) ==
    IF SamePair(table, entry) = {} THEN table (+) SetToBag({entry}) ELSE table

\* ---- lines 226-237: the statements of the entries, in the order of the list
RECURSIVE InsertAll(_, _)
InsertAll(table, stage_list) ==
    IF stage_list = << >> THEN table
    ELSE InsertAll(InsertEntry(table, Head(stage_list)), Tail(stage_list))

\* ---- lines 221-241, 249-252: save_to_postgres on the non-empty list of a
\* key: every statement succeeds, commit
SaveToPostgres ==
    /\ saves >= 0 /\ saves < MaxSaves
    /\ \E jira_key \in Keys, n \in 1..MaxFound :
          \E stage_list \in [1..n -> StageEntries(jira_key)] :
              /\ jira_commit_stages' = InsertAll(jira_commit_stages, stage_list)
              /\ rewritten' =
                     \E e \in 1..n :
                         \E r \in SamePair(jira_commit_stages, stage_list[e]) :
                             r # stage_list[e]
    /\ saves' = saves + 1
    /\ UNCHANGED notSave

\* ---- lines 223-237: connect or a statement raises: the exception leaves
\* main, nothing is committed
SaveRaises ==
    /\ saves >= 0 /\ saves < MaxSaves
    /\ saves' = saves + 1
    /\ rewritten' = FALSE
    /\ UNCHANGED <<notSave, jira_commit_stages>>

SaveNext == SaveToPostgres \/ SaveRaises

(***************************************************************************)
(* Part XIII.  jira_script.py: store_jira_issue_links                      *)
(***************************************************************************)
\* Calls of store_jira_issue_links.
MaxLinkCalls == 3

\* A link of an issue as Jira lists it under issuelinks: the side that names
\* the other issue, and that issue's key.
IssueLinks(jira_key) ==
    [side : {"outwardIssue", "inwardIssue"}, key : Keys \ {jira_key}]

\* The record written when an issue has no link.
NoLinkRecord(jira_key) ==
    [jira_key |-> jira_key, link_type |-> "", link_key |-> ""]

IssueLinkInit ==
    /\ issuelinks \in [Keys -> UNION {SUBSET IssueLinks(k) : k \in Keys}]
    /\ \A k \in Keys : issuelinks[k] \subseteq IssueLinks(k)
    /\ link_unique \in BOOLEAN
    /\ jira_issue_link = EmptyBag
    /\ link_before = EmptyBag
    /\ last_stored = NULL
    /\ repeated = FALSE
    /\ link_calls = 0

\* store_jira_issue_links does not run on its own.
IssueLinkOff ==
    /\ issuelinks = [k \in Keys |-> {}]
    /\ link_unique = FALSE
    /\ jira_issue_link = EmptyBag
    /\ link_before = EmptyBag
    /\ last_stored = NULL
    /\ repeated = FALSE
    /\ link_calls = -1

\* ---- lines 511-534: the record of a link. An outward link is written
\* under the issue of the call; an inward link is written under the other
\* issue, with the issue of the call as its link_key.
LinkRecord(jira_key, link) ==
    IF link.side = "outwardIssue"
    THEN [jira_key |-> jira_key, link_type |-> "blocks", link_key |-> link.key]
    ELSE [jira_key |-> link.key, link_type |-> "is blocked by",
          link_key |-> jira_key]

\* ---- lines 503-555: link_records, with the placeholder of an issue that
\* has no link
LinkRecords(jira_key) ==
    IF issuelinks[jira_key] = {} THEN {NoLinkRecord(jira_key)}
    ELSE {LinkRecord(jira_key, link) : link \in issuelinks[jira_key]}

\* ---- lines 543-545: DELETE FROM jira_issue_link WHERE jira_key = %s
DeleteLinks(table, jira_key) ==
    [r \in {q \in BagToSet(table) : q.jira_key # jira_key} |-> table[r]]

\* ---- lines 558-563: the INSERT has no ON CONFLICT clause: on a table with
\* a unique index over the row, a record that is already there is an error.
LinkConflict(table, jira_key) ==
    /\ link_unique
    /\ \E r \in LinkRecords(jira_key) : BagIn(r, DeleteLinks(table, jira_key))

\* ---- lines 499-568: the links are fetched, the rows of the issue are
\* deleted, the records are inserted, commit
LinksWritten ==
    /\ link_calls >= 0 /\ link_calls < MaxLinkCalls
    /\ \E jira_key \in Keys :
          /\ ~LinkConflict(jira_issue_link, jira_key)
          /\ jira_issue_link' = DeleteLinks(jira_issue_link, jira_key)
                                    (+) SetToBag(LinkRecords(jira_key))
          /\ repeated' = (last_stored = jira_key)
          /\ last_stored' = jira_key
    /\ link_before' = jira_issue_link
    /\ link_calls' = link_calls + 1
    /\ UNCHANGED <<notIssueLink, issuelinks, link_unique>>

\* ---- lines 558-563, 572-577: the INSERT raises a unique violation; the
\* rollback undoes the DELETE, 0 is returned
LinksConflict ==
    /\ link_calls >= 0 /\ link_calls < MaxLinkCalls
    /\ \E jira_key \in Keys :
          /\ LinkConflict(jira_issue_link, jira_key)
          /\ repeated' = (last_stored = jira_key)
    /\ link_before' = jira_issue_link
    /\ link_calls' = link_calls + 1
    /\ UNCHANGED <<notIssueLink, issuelinks, link_unique, jira_issue_link,
                   last_stored>>

\* ---- lines 499-500, 570-571: the request raises; nothing is written
LinksRequestFails ==
    /\ link_calls >= 0 /\ link_calls < MaxLinkCalls
    /\ repeated' = FALSE
    /\ link_before' = jira_issue_link
    /\ link_calls' = link_calls + 1
    /\ UNCHANGED <<notIssueLink, issuelinks, link_unique, jira_issue_link,
                   last_stored>>

IssueLinkNext == LinksWritten \/ LinksConflict \/ LinksRequestFails

(***************************************************************************)
(* Part XIV.  jira_script.py: _init_db and its callers                     *)
(***************************************************************************)
\* ---- line 104: max_retries of _init_db
db_max_retries == 3

\* The callers of _init_db.
Callers == {"__init__", "verify_connections", "store_jira_parent_relationships"}

\* ---- lines 90-92, 148-150, 399-400: _init_db is called by the constructor
\* with db_conn None, and by the two other callers when db_conn is None or
\* closed
InitDbInit ==
    /\ init_caller \in Callers
    /\ db_conn \in {"None", "closed"}
    /\ init_caller = "__init__" => db_conn = "None"
    /\ attempt_log = << >>
    /\ init_ret = "none"
    /\ proceeded = "none"
    /\ ipc = "loop"

\* _init_db does not run on its own.
InitDbOff ==
    /\ init_caller = "__init__"
    /\ db_conn = "None"
    /\ attempt_log = << >>
    /\ init_ret = "none"
    /\ proceeded = "none"
    /\ ipc = "off"

\* ---- lines 105-124: an attempt closes the connection it finds, connects
\* and runs SELECT 1; nothing leaves the loop, the next attempt follows
AttemptConnects ==
    /\ ipc = "loop" /\ Len(attempt_log) < db_max_retries
    /\ db_conn' = "open"
    /\ attempt_log' = Append(attempt_log, "verified")
    /\ UNCHANGED <<notInitDb, init_caller, init_ret, proceeded, ipc>>

\* ---- lines 108-118, 129-131: the connection found is closed, connect
\* raises OperationalError; sleep
AttemptRefused ==
    /\ ipc = "loop" /\ Len(attempt_log) < db_max_retries
    /\ db_conn' = IF db_conn = "None" THEN "None" ELSE "closed"
    /\ attempt_log' = Append(attempt_log, "refused")
    /\ UNCHANGED <<notInitDb, init_caller, init_ret, proceeded, ipc>>

\* ---- lines 112-124, 129-131: connect succeeds, SELECT 1 raises
\* OperationalError: the connection stays in db_conn; sleep
AttemptQueryFails ==
    /\ ipc = "loop" /\ Len(attempt_log) < db_max_retries
    /\ db_conn' = "unverified"
    /\ attempt_log' = Append(attempt_log, "query_failed")
    /\ UNCHANGED <<notInitDb, init_caller, init_ret, proceeded, ipc>>

\* ---- lines 112-124, 132-137: connect succeeds, the verification raises
\* another exception: the connection is closed; sleep
AttemptUnexpected ==
    /\ ipc = "loop" /\ Len(attempt_log) < db_max_retries
    /\ db_conn' = "closed"
    /\ attempt_log' = Append(attempt_log, "unexpected")
    /\ UNCHANGED <<notInitDb, init_caller, init_ret, proceeded, ipc>>

\* ---- lines 105, 138: after the last attempt, return False
InitDbReturns ==
    /\ ipc = "loop" /\ Len(attempt_log) = db_max_retries
    /\ init_ret' = "False"
    /\ ipc' = "returned"
    /\ UNCHANGED <<notInitDb, init_caller, db_conn, attempt_log, proceeded>>

\* ---- lines 91-92: the constructor drops the value; lines 150, 160-163:
\* verify_connections returns False unless db_ok; lines 400-402:
\* store_jira_parent_relationships returns 0 unless _init_db() is true
CallerResumes ==
    /\ ipc = "returned"
    /\ proceeded' = IF init_caller = "__init__" \/ init_ret = "True"
                    THEN "proceeds" ELSE "gives_up"
    /\ ipc' = "done"
    /\ UNCHANGED <<notInitDb, init_caller, db_conn, attempt_log, init_ret>>

InitDbNext ==
    \/ AttemptConnects
    \/ AttemptRefused
    \/ AttemptQueryFails
    \/ AttemptUnexpected
    \/ InitDbReturns
    \/ CallerResumes

(***************************************************************************)
(* Specifications                                                          *)
(***************************************************************************)
Trackers == {j \in [Keys -> IssueValues \cup {Absent}] :
                \A k \in Keys : j[k] # Absent => j[k].sprint = "S1"}
NoTracker == {[k \in Keys |-> Absent]}
\* Trackers whose first issue has a payload that lacks the status, the other
\* issues not being created yet.
LackingTrackers ==
    {[k \in Keys |-> IF k = KeySeq[1] THEN [status |-> l, sprint |-> "S1"] ELSE Absent] :
        l \in LackingStatus}

\* One JiraProcessor: the passes of the scheduled script, one after the other.
Init ==
    /\ ReconStart([p \in Procs |-> IF p = "A" THEN MaxPasses ELSE 0], Trackers)
    /\ FetchOff
    /\ RateOff
    /\ StageOff
    /\ KeyOff
    /\ TagOff
    /\ LinkOff
    /\ StoreOff
    /\ JiraFetchOff
    /\ PagedOff
    /\ BranchesOff
    /\ SaveOff
    /\ IssueLinkOff
    /\ InitDbOff
Spec == Init /\ [][ReconNext]_vars

\* Two JiraProcessor instances on the same database, one pass each.
InitConc ==
    /\ ReconStart([p \in Procs |-> 1], Trackers)
    /\ FetchOff
    /\ RateOff
    /\ StageOff
    /\ KeyOff
    /\ TagOff
    /\ LinkOff
    /\ StoreOff
    /\ JiraFetchOff
    /\ PagedOff
    /\ BranchesOff
    /\ SaveOff
    /\ IssueLinkOff
    /\ InitDbOff
SpecConc == InitConc /\ [][ReconNext]_vars

\* One JiraProcessor, two passes, on a tracker with payloads that lack the
\* status.
InitLacking ==
    /\ ReconStart([p \in Procs |-> IF p = "A" THEN 2 ELSE 0], LackingTrackers)
    /\ FetchOff
    /\ RateOff
    /\ StageOff
    /\ KeyOff
    /\ TagOff
    /\ LinkOff
    /\ StoreOff
    /\ JiraFetchOff
    /\ PagedOff
    /\ BranchesOff
    /\ SaveOff
    /\ IssueLinkOff
    /\ InitDbOff
SpecLacking == InitLacking /\ [][ReconNext]_vars

\* fetch_and_store_commits on one branch.
InitFetch ==
    /\ ReconStart([p \in Procs |-> 0], NoTracker)
    /\ FetchInit
    /\ RateOff
    /\ StageOff
    /\ KeyOff
    /\ TagOff
    /\ LinkOff
    /\ StoreOff
    /\ JiraFetchOff
    /\ PagedOff
    /\ BranchesOff
    /\ SaveOff
    /\ IssueLinkOff
    /\ InitDbOff
SpecFetch == InitFetch /\ [][FetchNext]_vars

\* The requests of one of the three request loops, with the clock.
InitRate ==
    /\ ReconStart([p \in Procs |-> 0], NoTracker)
    /\ FetchOff
    /\ RateInit
    /\ StageOff
    /\ KeyOff
    /\ TagOff
    /\ LinkOff
    /\ StoreOff
    /\ JiraFetchOff
    /\ PagedOff
    /\ BranchesOff
    /\ SaveOff
    /\ IssueLinkOff
    /\ InitDbOff
SpecRate == InitRate /\ [][RateNext]_vars

\* map_commits_to_stages on the lists fetched for one issue key.
InitStage ==
    /\ ReconStart([p \in Procs |-> 0], NoTracker)
    /\ FetchOff
    /\ RateOff
    /\ StageInit
    /\ KeyOff
    /\ TagOff
    /\ LinkOff
    /\ StoreOff
    /\ JiraFetchOff
    /\ PagedOff
    /\ BranchesOff
    /\ SaveOff
    /\ IssueLinkOff
    /\ InitDbOff
SpecStage == InitStage /\ [][StageNext]_vars

\* extract_jira_issue_keys on one message.
InitKey ==
    /\ ReconStart([p \in Procs |-> 0], NoTracker)
    /\ FetchOff
    /\ RateOff
    /\ StageOff
    /\ KeyInit
    /\ TagOff
    /\ LinkOff
    /\ StoreOff
    /\ JiraFetchOff
    /\ PagedOff
    /\ BranchesOff
    /\ SaveOff
    /\ IssueLinkOff
    /\ InitDbOff
SpecKey == InitKey /\ [][KeyNext]_vars

\* extract_tags on one message.
InitTag ==
    /\ ReconStart([p \in Procs |-> 0], NoTracker)
    /\ FetchOff
    /\ RateOff
    /\ StageOff
    /\ KeyOff
    /\ TagInit
    /\ LinkOff
    /\ StoreOff
    /\ JiraFetchOff
    /\ PagedOff
    /\ BranchesOff
    /\ SaveOff
    /\ IssueLinkOff
    /\ InitDbOff
SpecTag == InitTag /\ [][TagNext]_vars

\* One pass of process_commit_jira_links.
InitLink ==
    /\ ReconStart([p \in Procs |-> 0], NoTracker)
    /\ FetchOff
    /\ RateOff
    /\ StageOff
    /\ KeyOff
    /\ TagOff
    /\ LinkInit
    /\ StoreOff
    /\ JiraFetchOff
    /\ PagedOff
    /\ BranchesOff
    /\ SaveOff
    /\ IssueLinkOff
    /\ InitDbOff
SpecLink == InitLink /\ [][LinkNext]_vars

\* Calls of store_commit_jira_mappings, one after the other.
InitStore ==
    /\ ReconStart([p \in Procs |-> 0], NoTracker)
    /\ FetchOff
    /\ RateOff
    /\ StageOff
    /\ KeyOff
    /\ TagOff
    /\ LinkOff
    /\ StoreInit
    /\ JiraFetchOff
    /\ PagedOff
    /\ BranchesOff
    /\ SaveOff
    /\ IssueLinkOff
    /\ InitDbOff
SpecStore == InitStore /\ [][StoreNext]_vars

\* _fetch_all_jira_issues alone.
InitJiraFetch ==
    /\ ReconStart([p \in Procs |-> 0], NoTracker)
    /\ FetchOff
    /\ RateOff
    /\ StageOff
    /\ KeyOff
    /\ TagOff
    /\ LinkOff
    /\ StoreOff
    /\ JiraFetchInit
    /\ PagedOff
    /\ BranchesOff
    /\ SaveOff
    /\ IssueLinkOff
    /\ InitDbOff
SpecJiraFetch == InitJiraFetch /\ [][JiraFetchNext]_vars

InitPaged ==
    /\ ReconStart([p \in Procs |-> 0], NoTracker)
    /\ FetchOff
    /\ RateOff
    /\ StageOff
    /\ KeyOff
    /\ TagOff
    /\ LinkOff
    /\ StoreOff
    /\ JiraFetchOff
    /\ PagedInit
    /\ BranchesOff
    /\ SaveOff
    /\ IssueLinkOff
    /\ InitDbOff
SpecPaged == InitPaged /\ [][PagedNext]_vars
\* The function runs until it returns.
SpecPagedFair == SpecPaged /\ WF_vars(PagedNext)

InitBranches ==
    /\ ReconStart([p \in Procs |-> 0], NoTracker)
    /\ FetchOff
    /\ RateOff
    /\ StageOff
    /\ KeyOff
    /\ TagOff
    /\ LinkOff
    /\ StoreOff
    /\ JiraFetchOff
    /\ PagedOff
    /\ BranchesInit
    /\ SaveOff
    /\ IssueLinkOff
    /\ InitDbOff
SpecBranches == InitBranches /\ [][BranchesNext]_vars
\* The function runs until it returns.
SpecBranchesFair == SpecBranches /\ WF_vars(BranchesNext)

InitSave ==
    /\ ReconStart([p \in Procs |-> 0], NoTracker)
    /\ FetchOff
    /\ RateOff
    /\ StageOff
    /\ KeyOff
    /\ TagOff
    /\ LinkOff
    /\ StoreOff
    /\ JiraFetchOff
    /\ PagedOff
    /\ BranchesOff
    /\ SaveInit
    /\ IssueLinkOff
    /\ InitDbOff
SpecSave == InitSave /\ [][SaveNext]_vars

InitIssueLink ==
    /\ ReconStart([p \in Procs |-> 0], NoTracker)
    /\ FetchOff
    /\ RateOff
    /\ StageOff
    /\ KeyOff
    /\ TagOff
    /\ LinkOff
    /\ StoreOff
    /\ JiraFetchOff
    /\ PagedOff
    /\ BranchesOff
    /\ SaveOff
    /\ IssueLinkInit
    /\ InitDbOff
SpecIssueLink == InitIssueLink /\ [][IssueLinkNext]_vars

InitDbCalled ==
    /\ ReconStart([p \in Procs |-> 0], NoTracker)
    /\ FetchOff
    /\ RateOff
    /\ StageOff
    /\ KeyOff
    /\ TagOff
    /\ LinkOff
    /\ StoreOff
    /\ JiraFetchOff
    /\ PagedOff
    /\ BranchesOff
    /\ SaveOff
    /\ IssueLinkOff
    /\ InitDbInit
SpecInitDb == InitDbCalled /\ [][InitDbNext]_vars

(***************************************************************************)
(* Properties of process_jira_issues                                       *)
(***************************************************************************)
\* The pass p is running repeats the data of its last completed pass, which
\* ended without a persistence error.
RepeatsLastPass(p) ==
    /\ pc[p] = "loop"
    /\ done[p].n >= 1
    /\ done[p].errKeys = {}
    /\ done[p].issues = all_issues[p]
    /\ done[p].links = jira_commits[p]

\* C1: a pass on the same issues, statuses and commit links as the pass
\* before it, which committed without error, issues no statement on
\* jira_issue_commits and counts 0 inserts and 0 updates.
C1_SecondPassWritesNothing ==
    \A p \in Procs :
        RepeatsLastPass(p) =>
            cur[p].stmts = 0 /\ inserts[p] = 0 /\ updates[p] = 0

\* C2: jira_issue_commits holds at most one row for a pair
\* (jira_key, commit_sha), the pair with commit_sha NULL included.
C2_OneRowPerPair ==
    \A r1, r2 \in BagToSet(jic) :
        /\ CopiesIn(r1, jic) = 1
        /\ (r1.jira_key = r2.jira_key /\ r1.commit_sha = r2.commit_sha) => r1 = r2

\* C3: after a pass without persistence error, every row of an issue the
\* pass fetched has the status the pass fetched.
C3_StatusOfLastPass ==
    \A p \in Procs :
        (pc[p] = "idle" /\ done[p].n >= 1 /\ done[p].errKeys = {}) =>
            \A i \in 1..Len(done[p].issues) :
                \A r \in BagToSet(jic) :
                    r.jira_key = done[p].issues[i].key
                        => r.status = done[p].issues[i].status

\* C4: per candidate, against the rows the connection sees: no row of the
\* pair -> one insert, counted as an insert; a row with the same status ->
\* no statement; a row with another status -> one update, counted as an
\* update.
C4_DecisionTable ==
    \A p \in Procs :
        LET o == lastOp[p]
        IN  o.kind \in {"skip", "stmt"} =>
                /\ o.before = {} =>
                      o.kind = "stmt" /\ o.effect = "inserted" /\ o.counted = "insert"
                /\ o.before = {o.status} => o.kind = "skip"
                /\ (o.before # {} /\ o.status \notin o.before) =>
                      o.kind = "stmt" /\ o.effect = "updated" /\ o.counted = "update"

\* The statement for a candidate of a key that no row held at the start of
\* the pass inserts a row, is counted as an insert and leaves the rows of
\* the other pairs as they were.
NewKeyInserts(p) ==
    LET o == lastOp[p]
    IN  (o.isNew /\ o.kind \in {"skip", "stmt"}) =>
            /\ o.kind = "stmt"
            /\ o.effect = "inserted"
            /\ o.counted = "insert"
            /\ o.othersSame

\* The pass of p is over: the table holds a row for every pair of every
\* fetched key that no row held at the start of the pass and none of whose
\* statements failed.
NewKeyPersisted(p) ==
    (pc[p] = "idle" /\ done[p].n >= 1 /\ done[p].issues = all_issues[p]) =>
        \A i \in 1..Len(all_issues[p]) :
            LET key == all_issues[p][i].key
            IN  (key \notin existing_jira_keys[p] /\ key \notin done[p].errKeys) =>
                    \A sha \in CommitsOf(jira_commits[p], key) :
                        \E r \in BagToSet(jic) :
                            r.jira_key = key /\ r.commit_sha = sha

\* C5: for an issue key that no row held at the start of the pass, the pass
\* inserts and persists a row for each (key, commit) pair, also when a row
\* of another key holds the same commit_sha; the statement is an insert,
\* not a skip, and changes no row of another pair.
C5_NewKeyPersisted ==
    \A p \in Procs : NewKeyInserts(p) /\ NewKeyPersisted(p)

\* The values pass p fetched for issue key k.
Fetched(p, k) ==
    LET i == CHOOSE i \in 1..Len(done[p].issues) : done[p].issues[i].key = k
    IN  done[p].issues[i]

\* Both processes wrote the pair (k, c), with different statuses, in passes
\* that each read the table before the other committed.
BothWrote(k, c) ==
    /\ \A p \in Procs : done[p].n = 1 /\ done[p].errKeys = {}
    /\ \E p \in Procs : done[p].overlap
    /\ \A p \in Procs : \E w \in done[p].wrote : w[1] = k /\ w[2] = c
    /\ \E v, w \in UNION {done[p].wrote : p \in Procs} :
          v[1] = k /\ w[1] = k /\ v[2] = c /\ w[2] = c /\ v[3] # w[3]

\* C6: after two overlapping passes wrote the same pair, the table holds one
\* row of the pair, with the sprint and the status of the pass that
\* committed last.
C6_LastWriterWins ==
    \A k \in Keys, c \in Shas \cup {NULL} :
        BothWrote(k, c) =>
            LET last == Fetched(commitLog[Len(commitLog)], k)
                rows == [r \in {x \in BagToSet(jic) :
                                    x.jira_key = k /\ x.commit_sha = c} |-> jic[r]]
            IN  rows = SetToBag({Row(last.sprint, k, last.status, c)})

\* C7: a write made for an issue none of whose records failed is in the
\* table when the pass ends, whatever failed for the other issues.
C7_OtherGroupsKept ==
    \A p \in Procs :
        (pc[p] = "idle" /\ done[p].n >= 1) =>
            \A w \in done[p].wrote :
                w[1] \notin done[p].errKeys =>
                    \E r \in BagToSet(jic) :
                        /\ r.jira_key = w[1]
                        /\ r.commit_sha = w[2]
                        /\ r.status = w[3]

(***************************************************************************)
(* Properties of fetch_and_store_commits and get_github_data               *)
(***************************************************************************)
StoredAfterFailure(i, j) ==
    /\ i < j
    /\ storeLog[i][2] = "failed"
    /\ quality[storeLog[j][1]] = "valid"

\* C8: after store_commit_data has failed for a commit, every later commit
\* of the branch with valid data that the fetch hands to store_commit_data
\* is stored (committed) on the same connection.
C8_LaterCommitsStored ==
    \A i, j \in 1..Len(storeLog) :
        StoredAfterFailure(i, j) => storeLog[j][1] \in stored

\* The commits listed on page p.
OnPage(p) == {PageBody(p)[i] : i \in 1..Len(PageBody(p))}

Transient(a) == a.status \notin {"200", "404"}

\* The fetch is over, the list of page 2 was given up after max_retries
\* transient failures, no other request was given up, and every commit
\* fetched is valid.
OnlyPageTwoFailed ==
    /\ fpc = "done"
    /\ txn = "closed"
    /\ PageCount >= 3
    /\ failed = {<<"list", 2, "exhausted">>}
    /\ \A i \in 1..Len(callLog) : Transient(callLog[i]) /\ ~callLog[i].limited
    /\ \A c \in 1..remote : quality[c] \in {"unknown", "valid"}

\* C9: when the list of page 2 of N fails permanently, the pages 1 and 3..N
\* are requested and all their commits are stored.
C9_OtherPagesStored ==
    OnlyPageTwoFailed =>
        \A p \in (1..PageCount) \ {2} :
            p \in asked /\ OnPage(p) \subseteq stored

\* C10: a call of get_github_data makes at most max_retries requests; the
\* sleep after a transient failure (an exception, a status other than 200
\* and 404) is retry_delay; the first attempt answered 200 ends the call,
\* which returns its body; after max_retries failed attempts it returns None.
C10_RetryContract ==
    fpc \in {"repo", "list", "detail"} =>
        /\ Len(callLog) <= max_retries
        /\ \A i \in 1..Len(callLog) :
              /\ Transient(callLog[i]) => callLog[i].wait = retry_delay
              /\ callLog[i].status = "200" =>
                    i = Len(callLog) /\ ret = Returned(Body)
        /\ (ret = Pending /\ attempt = max_retries) =>
              \A i \in 1..Len(callLog) : callLog[i].status # "200"

\* C11: an attempt answered 404 is the last request of the call: nothing
\* is slept after it and the call returns None.
C11_NotFoundIsTerminal ==
    fpc \in {"repo", "list", "detail"} =>
        \A i \in 1..Len(callLog) :
            callLog[i].status = "404" =>
                /\ i = Len(callLog)
                /\ callLog[i].wait = 0
                /\ ret = None

\* The attempts of the call that failed: answered with budget left by a
\* status other than 200, or ended by an exception.
FailedAttempts == {i \in 1..Len(callLog) :
                      ~callLog[i].limited /\ callLog[i].status # "200"}

\* C13: the answers that report a low rate-limit budget use up none of the
\* max_retries attempts, and a call returns None only after an answer 404
\* or after max_retries failed attempts.
C13_SuspensionIsNoFailure ==
    fpc \in {"repo", "list", "detail"} =>
        /\ attempt <= Cardinality(FailedAttempts)
        /\ ret = None =>
              \/ Cardinality(FailedAttempts) >= max_retries
              \/ \E i \in FailedAttempts : callLog[i].status = "404"

\* The page loop ends at page p: the page is short or empty, or its list
\* was not fetched.
EndsLoop(p) ==
    \/ Len(PageBody(p)) < PerPage
    \/ \E why \in {"exhausted", "not_found"} : <<"list", p, why>> \in failed

\* Steps the call in progress can still take, the step of its caller
\* included; the same for a whole call.
InCall == IF ret = Pending THEN max_retries - attempt + 2 ELSE 1
CallCost == max_retries + 2

\* A bound on the steps the fetch can still take: the calls that can follow
\* the call in progress are one list request for each page up to the one
\* after the last and one detail request for each commit not yet reached.
Measure ==
    CASE fpc \in {"done", "off"} -> 0
      [] fpc = "start" -> 1 + CallCost * (PageCount + 2 + remote)
      [] fpc = "repo" -> InCall + CallCost * (PageCount + 1 + remote)
      [] fpc = "list" ->
            InCall + CallCost * (PageCount + 1 - page + remote - (page - 1) * PerPage)
      [] fpc = "detail" ->
            InCall + CallCost * (PageCount + 1 - page + remote - commits_data[pos])

\* C14: fetch_and_store_commits terminates: every step of the fetch lowers
\* a bound on the steps left, whatever the requests and the stores do; no
\* call makes more than max_retries requests; and the page loop, once over,
\* has ended at the first page that is short, empty or not fetched.
C14_FetchTerminates ==
    /\ [](Measure >= 0 /\ Len(callLog) <= max_retries /\ attempt <= max_retries)
    /\ []((fpc = "done" /\ page >= 1) =>
              /\ EndsLoop(page)
              /\ asked = 1..page
              /\ \A p \in 1..(page - 1) : ~EndsLoop(p))
    /\ [][Measure' < Measure]_vars

\* The fetch is over after three pages, a request that was given up and a
\* store that failed.
C14_Witness ==
    /\ fpc = "done"
    /\ page >= 3
    /\ failed # {}
    /\ \E i \in 1..Len(storeLog) : storeLog[i][2] = "failed"

\* The commit was handed to store_commit_data, or skipped because its
\* details were not fetched.
Handled(c) ==
    \/ \E i \in 1..Len(storeLog) : storeLog[i][1] = c
    \/ \E why \in {"exhausted", "not_found"} : <<"detail", c, why>> \in failed

\* C15: while page N is being requested or processed, every commit of the
\* pages before N has been stored or skipped and the pages requested are
\* 1..N; a list request begins only for the page after the current one;
\* and a call of get_github_data begins only when the one before it has
\* returned.
C15_PagesInOrder ==
    /\ [](fpc \in {"list", "detail"} =>
              /\ asked = 1..page
              /\ \A p \in 1..(page - 1) : \A c \in OnPage(p) : Handled(c))
    /\ [][(fpc # "list" /\ fpc' = "list") => page' = page + 1]_vars
    /\ [][(page' # page) => (page' = page + 1 /\ fpc' = "list" /\ fpc # "list")]_vars
    /\ [][(ret' = Pending /\ callLog' = << >>) => ret # Pending]_vars

\* Page 3 is being requested after a commit of an earlier page was skipped
\* and another one stored.
C15_Witness ==
    /\ fpc = "list"
    /\ page = 3
    /\ ret = Pending
    /\ \E c \in 1..remote : \E why \in {"exhausted", "not_found"} :
          <<"detail", c, why>> \in failed
    /\ stored # {}

(***************************************************************************)
(* Properties of the rate-limit handling                                   *)
(***************************************************************************)
\* C12: when the last answer reported remaining 0 with reset time T, the
\* next request leaves no earlier than T plus the margin of the function,
\* after exactly one sleep.
C12_NextRequestAfterReset ==
    (rlpc = "response" /\ response.status # "none" /\ response.remaining = 0) =>
        /\ sent >= response.reset + Margin(fetcher)
        /\ slept = 1

(***************************************************************************)
(* Properties of map_commits_to_stages                                     *)
(***************************************************************************)
\* The transitions of the changelog at or before date d, and the latest of
\* their timestamps.
AtOrBefore(d) == {i \in 1..Len(transitions_in) : transitions_in[i].transition_date <= d}
LatestDate(d) ==
    CHOOSE t \in Dates :
        /\ \E i \in AtOrBefore(d) : transitions_in[i].transition_date = t
        /\ \A i \in AtOrBefore(d) : transitions_in[i].transition_date <= t
Latest(d) == {i \in AtOrBefore(d) : transitions_in[i].transition_date = LatestDate(d)}

\* C16: the result holds one entry for each commit found; the stage of an
\* entry is the to_stage of a transition that has the latest timestamp at or
\* before the commit's date, and "TO DO" when no transition is at or before
\* that date.
C16_StageOfLatestTransition ==
    mpc = "done" =>
        /\ Len(stage_commits) = Len(commits_in)
        /\ \A c \in 1..Len(commits_in) :
              \E e \in 1..Len(stage_commits) :
                  /\ stage_commits[e].commit_sha = commits_in[c].sha
                  /\ stage_commits[e].commit_date = commits_in[c].date
        /\ \A e \in 1..Len(stage_commits) :
              LET d == stage_commits[e].commit_date
              IN  IF AtOrBefore(d) = {}
                  THEN stage_commits[e].stage = "TO DO"
                  ELSE \E i \in Latest(d) :
                          stage_commits[e].stage = transitions_in[i].to_stage

\* Commits found out of date order got their stages: one before every
\* transition, one after a transition that has an earlier one behind it in
\* the changelog.
C16_Witness ==
    /\ mpc = "done"
    /\ Len(commits_in) = 2
    /\ commits_in[1].date > commits_in[2].date
    /\ AtOrBefore(commits_in[2].date) = {}
    /\ Len(transitions_in) = 2
    /\ transitions_in[1].transition_date > transitions_in[2].transition_date
    /\ AtOrBefore(commits_in[1].date) = {1, 2}
    /\ transitions_in[1].to_stage # transitions_in[2].to_stage

\* C17: among the transitions that share the latest timestamp at or before
\* the commit's date, the one that stands last in the changelog gives the
\* stage.
C17_TieByListOrder ==
    mpc = "done" =>
        \A e \in 1..Len(stage_commits) :
            LET d == stage_commits[e].commit_date
            IN  AtOrBefore(d) # {} =>
                    LET last == CHOOSE i \in Latest(d) : \A j \in Latest(d) : j <= i
                    IN  stage_commits[e].stage = transitions_in[last].to_stage

\* Two transitions to different stages share the timestamp that decides
\* the stage of a commit.
C17_Witness ==
    /\ mpc = "done"
    /\ \E e \in 1..Len(stage_commits) :
          LET d == stage_commits[e].commit_date
          IN  /\ AtOrBefore(d) # {}
              /\ \E i, j \in Latest(d) :
                    transitions_in[i].to_stage # transitions_in[j].to_stage

(***************************************************************************)
(* Properties of extract_jira_issue_keys                                   *)
(***************************************************************************)
\* An uppercase letter, letters or digits, a hyphen, one or more digits.
WellFormed(k) ==
    /\ Len(k) >= 3
    /\ k[1] \in Letters
    /\ \E h \in 2..(Len(k) - 1) :
          /\ k[h] = "-"
          /\ \A i \in 2..(h - 1) : k[i] \in AlNums
          /\ \A i \in (h + 1)..Len(k) : k[i] \in Digits

\* k stands in the text, case aside.
Occurs(k, text) ==
    \E i \in 1..Len(text) :
        i + Len(k) - 1 <= Len(text) /\ SubSeq(Upper(text), i, i + Len(k) - 1) = k

\* C18: the result holds well-formed keys in uppercase that stand in the
\* message, case aside, each distinct key once; it is empty for an empty
\* message, and not empty when the message contains a well-formed key.
C18_DistinctUppercaseKeys ==
    kpc = "done" =>
        /\ \A i \in 1..Len(issue_keys) :
              /\ WellFormed(issue_keys[i])
              /\ Occurs(issue_keys[i], message)
        /\ \A i, j \in 1..Len(issue_keys) : issue_keys[i] = issue_keys[j] => i = j
        /\ message = << >> => issue_keys = << >>
        /\ (\E i \in 1..Len(message) : MatchEnd(Upper(message), i) > 0)
              => issue_keys # << >>

(***************************************************************************)
(* Properties of extract_tags                                              *)
(***************************************************************************)
\* A hash-prefixed token, or the keyword with its numeric payload, begins
\* at index i.
PatternAt(text, i) == HashEnd(text, i) > 0 \/ KeywordDigits(text, i) > 0

\* The tag of the pattern that begins at index i.
TagAt(text, i) ==
    IF HashEnd(text, i) > 0 THEN SubSeq(text, i + 1, HashEnd(text, i))
    ELSE SubSeq(text, KeywordDigits(text, i),
                RunEnd(text, KeywordDigits(text, i), Digits) - 1)

\* The indices where a match begins: a pattern begins there, outside of
\* every match that begins further left.
Occurrence(text) ==
    LET occ[i \in 1..Len(text)] ==
            /\ PatternAt(text, i)
            /\ \A j \in 1..(i - 1) : occ[j] => TagMatchEnd(text, j) < i
    IN  {i \in 1..Len(text) : occ[i]}

\* The number of matches that begin at or left of index i.
Rank(text, i) == Cardinality({j \in Occurrence(text) : j <= i})

\* C19: the result is never empty; it is the one-element list of the
\* sentinel when the message is empty or holds neither pattern; otherwise
\* it is the tags of the matches in their order of occurrence, and the
\* sentinel is not among them.
C19_TagsOrSentinel ==
    tpc = "done" =>
        /\ cleaned_tags # << >>
        /\ (tag_message = << >> \/ \A i \in 1..Len(tag_message) : ~PatternAt(tag_message, i))
              => cleaned_tags = <<NoTagFound>>
        /\ (\E i \in 1..Len(tag_message) : PatternAt(tag_message, i))
              => /\ Len(cleaned_tags) = Cardinality(Occurrence(tag_message))
                 /\ \A i \in Occurrence(tag_message) :
                       cleaned_tags[Rank(tag_message, i)] = TagAt(tag_message, i)
                 /\ \A k \in 1..Len(cleaned_tags) : cleaned_tags[k] # NoTagFound

\* A message with a keyword tag followed by a hash tag has been processed.
C19_Witness ==
    /\ tpc = "done"
    /\ Len(cleaned_tags) = 2
    /\ cleaned_tags[1] = <<"1">>
    /\ cleaned_tags[2] = <<"x">>

(***************************************************************************)
(* Properties of process_commit_jira_links                                 *)
(***************************************************************************)
\* The rows of login l (case aside) that come after the row at which its
\* mapping was learned, and whose handling is over, in a pass no exception
\* has ended.
LaterRows(l) ==
    {r \in 1..Len(link_rows) :
        /\ Lower(link_rows[r]) = l
        /\ r > learned[l].row
        /\ (r < Len(link_rows) /\ lpc = "keys") \/ lpc \in {"loop", "done"}}

\* C20: once a mapping of a login was learned in the pass, the map keeps
\* that mapping, no issue is looked up for a later row of the login, and
\* every later row of the login gets the learned name.
C20_LearnedMappingIsReused ==
    \A l \in NormLogins :
        learned[l].row > 0 =>
            /\ github_jira_mapping[l] = learned[l].name
            /\ \A r \in fetched_for : Lower(link_rows[r]) = l => r <= learned[l].row
            /\ \A r \in LaterRows(l) : team_member[link_rows[r]] = learned[l].name

\* A mapping was learned for a login and a later row of that login (in
\* another spelling) was handled.
C20_Witness ==
    /\ lpc = "done"
    /\ learned["bob"].row = 1
    /\ link_rows[1] = "Bob"
    /\ Len(link_rows) = 3
    /\ link_rows[3] = "bob"

\* C21: when a pass has ended, user_login_mappings equals the in-memory map
\* for every login; and no issue is looked up for a login that
\* user_login_mappings held when the JiraProcessor was created.
C21_MappingsPersistedAndReloaded ==
    /\ lpc = "done" => user_login_mappings = github_jira_mapping
    /\ lpc \in {"loop", "keys"} =>
           \A r \in fetched_for : user_login_mappings[Lower(link_rows[r])] = NoEntry
    /\ \A l \in persisted : github_jira_mapping[l] = user_login_mappings[l]

\* A second JiraProcessor has handled a row of a login whose mapping the
\* first one learned, without looking up an issue.
C21_Witness ==
    /\ runs = 2
    /\ lpc = "done"
    /\ Len(link_rows) = 1
    /\ Lower(link_rows[1]) \in persisted
    /\ fetched_for = {}
    /\ team_member[link_rows[1]] # NoEntry

\* str.strip()
Trim(login) == IF login = "bob\t" THEN "bob" ELSE login
\* The normalized login: lower-cased and trimmed.
Normalized(login) == Trim(Lower(login))

\* The rows whose handling is over, in a pass no exception has ended.
HandledRows ==
    {r \in 1..Len(link_rows) :
        (r < Len(link_rows) /\ lpc = "keys") \/ lpc \in {"loop", "done"}}

\* C22: a row whose login, lower-cased and trimmed, equals a login, lower-
\* cased and trimmed, that the map held before the row was handled gets the
\* team member of that login.
C22_KeyedByNormalizedLogin ==
    \A r \in HandledRows : \A k \in NormLogins :
        (/\ Normalized(link_rows[r]) = Normalized(k)
         /\ github_jira_mapping[k] # NoEntry
         /\ learned[k].row < r)
            => team_member[link_rows[r]] = github_jira_mapping[k]

\* C23: no failure of a Jira request ends the pass, and a pass that no
\* database error ended has persisted the mappings it learned.
C23_FetchFailureSkipsTheIssue ==
    /\ lpc # "fetch_raised"
    /\ lpc = "done" =>
           \A l \in NormLogins :
               learned[l].row > 0 => user_login_mappings[l] = learned[l].name

(***************************************************************************)
(* Properties of store_commit_jira_mappings                                *)
(***************************************************************************)
\* C25: once store_commit_jira_mappings has run for an issue key and
\* committed, commit_jira holds the pair of that key with every commit whose
\* message names it, whatever other keys the message names.
C25_ManyToMany ==
    \A i \in 1..Len(cj_calls) : \A c \in StoredShas :
        (cj_calls[i] # NULL /\ cj_calls[i] \in references[c])
            => <<cj_calls[i], c>> \in cj_table

C26_CountsAreFaithful ==
    \A p \in Procs :
        (pc[p] = "idle" /\ done[p].n >= 1) =>
            /\ done[p].inserts = done[p].rowsInserted
            /\ done[p].updates = done[p].rowsUpdated

\* C29: the statement sent for a pair that is held with another status
\* leaves the table as it was but for the status of the rows of that pair.
C29_UpdateChangesStatusOnly ==
    \A p \in Procs :
        (lastOp[p].kind = "stmt" /\ lastOp[p].counted = "update") =>
            lastOp[p].onlyStatus

\* The sweep of the specification over the sorted lists: used is the number
\* of transitions consumed so far and only grows; a commit consumes the
\* transitions that follow used as long as their timestamp is at or before
\* its own, and takes the stage reached.
RECURSIVE Consume(_, _, _)
Consume(used, stage, date) ==
    IF used < Len(transitions) /\ transitions[used + 1].transition_date <= date
    THEN Consume(used + 1, transitions[used + 1].to_stage, date)
    ELSE [used |-> used, stage |-> stage]

RECURSIVE Sweep(_)
Sweep(n) ==
    IF n = 0 THEN [used |-> 0, stage |-> "TO DO", out |-> << >>]
    ELSE LET before == Sweep(n - 1)
             now == Consume(before.used, before.stage, commits[n].date)
         IN  [used |-> now.used, stage |-> now.stage,
              out |-> Append(before.out,
                         [commit_sha |-> commits[n].sha,
                          commit_date |-> commits[n].date,
                          stage |-> now.stage])]

\* C27: after every commit of the loop, and at the return, the assignments
\* made by rescanning every sorted transition are those the monotonic sweep
\* makes for the same commits, and the stage carried over is the stage of
\* the sweep.
C27_LoopEqualsMonotonicSweep ==
    mpc \in {"loop", "done"} /\ commits # << >> =>
        /\ stage_commits = Sweep(Len(stage_commits)).out
        /\ current_stage = Sweep(Len(stage_commits)).stage

\* The sweep consumed one transition for the first commit and the next one
\* for the second commit, and the two commits got different stages.
C27_Witness ==
    /\ mpc = "done"
    /\ Len(commits) = 2 /\ Len(transitions) = 2
    /\ Sweep(1).used = 1 /\ Sweep(2).used = 2
    /\ Len(stage_commits) = 2
    /\ stage_commits[1].stage # stage_commits[2].stage

\* C28: the result holds every distinct commit found for the key, no sha
\* twice, in ascending order of the commit dates.
C28_OneAssignmentPerCommit ==
    mpc = "done" =>
        /\ \A c \in 1..Len(commits_in) :
              \E e \in 1..Len(stage_commits) :
                  stage_commits[e].commit_sha = commits_in[c].sha
        /\ \A e, f \in 1..Len(stage_commits) :
              stage_commits[e].commit_sha = stage_commits[f].commit_sha => e = f
        /\ \A e, f \in 1..Len(stage_commits) :
              e < f => stage_commits[e].commit_date <= stage_commits[f].commit_date

\* C30: a fetch in which no request raised returns the issues of the
\* collection, each of them once, in the order of the collection.
C30_EveryIssueOnce ==
    (jpc = "done" /\ request_errors = 0) =>
        fetched_issues = [i \in 1..jira_total |-> i]

\* C31: _fetch_paginated_jira_data returns, whatever the server answers.
C31_PaginationTerminates == <>(ppc = "done")

\* C32: get_all_branches returns, whatever the server answers.
C32_BranchListingTerminates == <>(bpc = "done")

\* C34: an instance of JiraProcessor sends at most one request for an issue
\* key; a key whose request was answered, by an issue or by an HTTP error,
\* is in issue_cache.
C34_EachKeyRequestedOnce ==
    \A key \in IssueKeys :
        /\ requested[key] <= 1
        /\ (requested[key] = 1 /\ lpc # "fetch_raised") => issue_cache[key] # NoEntry

\* One request was sent, it was answered by an HTTP error, and the key was
\* looked up for two rows: the second time the cache answered.
C34_Witness ==
    /\ Cardinality(fetched_for) = 2
    /\ \E key \in IssueKeys :
          /\ requested[key] = 1
          /\ issue_cache[key] = "None"
          /\ \A other \in IssueKeys \ {key} : requested[other] = 0

\* C38: the table never holds two rows for a pair (jira_key, commit_sha),
\* and a step of save_to_postgres leaves every row of the table as it is:
\* it only adds rows.
C38_FirstWriteWins ==
    /\ [](\A r, q \in BagToSet(jira_commit_stages) :
             /\ CopiesIn(r, jira_commit_stages) = 1
             /\ (r.jira_key = q.jira_key /\ r.commit_sha = q.commit_sha) => r = q)
    /\ [][\A r \in BagToSet(jira_commit_stages) :
             CopiesIn(r, jira_commit_stages') = CopiesIn(r, jira_commit_stages)]_vars

\* A later call held an entry for a pair of the table with another stage or
\* date.
C38_Witness ==
    /\ saves = 2
    /\ rewritten
    /\ jira_commit_stages # EmptyBag

\* What a finished call of store_commit_jira_mappings has left in the
\* tables: a row of commit_jira for every commit of the key, the rows of
\* jira_parent, the rows of jira_issue_link.
CallOver == spc \in {"history", "done"} /\ call.key # NULL /\ call.count >= 0
CommitRowsPersisted ==
    \A c \in CommitsFor(call.key) : \E pr \in cj_table : pr[2] = c
ParentRowsPersisted == call.key \in jira_db.parent
LinkRowsPersisted == call.key \in jira_db.links

\* C33: after a call of store_commit_jira_mappings the rows of the steps
\* that had rows to write are persisted all or none, and a count above 0 is
\* returned only with the commit_jira rows persisted.
C33_GroupIsAtomic ==
    CallOver =>
        /\ call.count > 0 => CommitRowsPersisted
        /\ call.parent \in {"stored", "raised"} =>
               (ParentRowsPersisted <=> CommitRowsPersisted)
        /\ call.links \in {"stored", "raised"} =>
               (LinkRowsPersisted <=> CommitRowsPersisted)

(***************************************************************************)
(* Properties of store_jira_details_only                                   *)
(***************************************************************************)
\* C35: when the script ends, jira_detail holds the row of every issue for
\* which store_jira_details_only returned 1.
C35_ReturnedDetailIsDurable ==
    spc = "done" =>
        \A k \in Keys : detail_returned[k] = 1 => k \in jira_db.detail

(***************************************************************************)
(* Properties of store_jira_issue_links                                    *)
(***************************************************************************)
\* C36: a call of store_jira_issue_links for the issue of the call before
\* it, with the links of the issue unchanged, leaves jira_issue_link with
\* the rows it had, and none of its rows twice.
C36_LinksIdempotent ==
    repeated =>
        /\ jira_issue_link = link_before
        /\ \A r \in BagToSet(jira_issue_link) : CopiesIn(r, jira_issue_link) = 1

(***************************************************************************)
(* Properties of _init_db                                                  *)
(***************************************************************************)
\* C37: _init_db makes at most 3 attempts and none after an attempt that
\* left a verified open connection; it returns True exactly when such a
\* connection is in db_conn; verify_connections and
\* store_jira_parent_relationships proceed after a successful reconnect.
C37_InitDbStopsAndReports ==
    /\ Len(attempt_log) <= 3
    /\ \A i \in 1..Len(attempt_log) - 1 : attempt_log[i] # "verified"
    /\ ipc \in {"returned", "done"} => (init_ret = "True" <=> db_conn = "open")
    /\ (ipc = "done" /\ db_conn = "open") => proceeded = "proceeds"
====
